---- MODULE Spec2Model ----
(***************************************************************************)
(* Booking-data reconciliation and finalization engine of the chatbot:     *)
(* the turn-ordered scratchpad (booking/scratchpad.py), the per-turn        *)
(* orchestration (orchestrator/message_processor.py), the confirmation      *)
(* endpoint (main.py, booking/booking_flow_integration.py) and the          *)
(* snapshot sink (service_request_dumper.py).                               *)
(*                                                                          *)
(* Values are strings; Python's None is the string NULL.  A section of the  *)
(* scratchpad is a function whose DOMAIN is the set of keys of the Python   *)
(* dict.  Wall-clock fields (timestamp, edited_at, created_at) and the      *)
(* confidence score are not modelled: no decision of the code reads them.   *)
(* data_completeness is kept in tenths of a percent (62 is 6.2%).           *)
(***************************************************************************)
EXTENDS Integers, Sequences, FiniteSets, TLC

VARIABLES scratchpad, hiwrite, state, user_data, metadata, sr_count, dumps, last,
          threads, scratchpad_managers, conversations, conversation_id,
          confirmation_mode, history

padVars == <<scratchpad, hiwrite>>
convVars == <<state, user_data, metadata, sr_count, dumps>>
envVars ==
    <<scratchpad_managers, conversations, conversation_id, confirmation_mode, history>>
vars == <<scratchpad, hiwrite, state, user_data, metadata, sr_count, dumps, last,
          threads, scratchpad_managers, conversations, conversation_id,
          confirmation_mode, history>>

NULL == "NULL"

(***************************************************************************)
(* Bounds of the model.                                                    *)
(***************************************************************************)
MaxTurn == 2
MaxSR == 2
MaxDumps == 2
MaxAttempts == 3
MaxFilled == 18
MaxHistory == 5

(***************************************************************************)
(* config.py                                                               *)
(***************************************************************************)
REQUIRED_FIELDS_FOR_BOOKING == 12
TOTAL_POSSIBLE_FIELDS == 16
CONFIRMATION_AUTO_CONFIRM_ATTEMPTS == 3
CONFIRMATION_MODE == "CHAT"

GREETING == "greeting"
NAME_COLLECTION == "name_collection"
SERVICE_SELECTION == "service_selection"
VEHICLE_DETAILS == "vehicle_details"
DATE_SELECTION == "date_selection"
CONFIRMATION == "confirmation"
COMPLETED == "completed"
CANCELLED == "cancelled"
TIER_SELECTION == "tier_selection"
VEHICLE_TYPE == "vehicle_type"
SLOT_SELECTION == "slot_selection"
ADDRESS_COLLECTION == "address_collection"

ConversationState ==
    {GREETING, NAME_COLLECTION, VEHICLE_DETAILS, DATE_SELECTION, CONFIRMATION,
     COMPLETED, SERVICE_SELECTION, TIER_SELECTION, VEHICLE_TYPE, SLOT_SELECTION,
     ADDRESS_COLLECTION, CANCELLED}

VALID_TRANSITIONS(s) ==
    CASE s = GREETING -> {NAME_COLLECTION, SERVICE_SELECTION}
      [] s = NAME_COLLECTION -> {VEHICLE_DETAILS, SERVICE_SELECTION}
      [] s = SERVICE_SELECTION -> {NAME_COLLECTION, VEHICLE_DETAILS}
      [] s = VEHICLE_DETAILS ->
            {DATE_SELECTION, CONFIRMATION, NAME_COLLECTION, SERVICE_SELECTION}
      [] s = DATE_SELECTION -> {CONFIRMATION, VEHICLE_DETAILS}
      [] s = CONFIRMATION -> {COMPLETED, DATE_SELECTION, CANCELLED}
      [] s = COMPLETED -> {GREETING}
      [] s = CANCELLED -> {GREETING}
      [] s = TIER_SELECTION -> {CONFIRMATION}
      [] s = VEHICLE_TYPE -> {VEHICLE_DETAILS}
      [] s = SLOT_SELECTION -> {CONFIRMATION}
      [] s = ADDRESS_COLLECTION -> {CONFIRMATION}
      [] OTHER -> {}

(***************************************************************************)
(* Python helpers: str(v).lower() on the values of the model, truthiness,  *)
(* and round(x, 1) (round-half-to-even; filled/16*100 is exact in binary). *)
(***************************************************************************)
Lower(v) ==
    CASE v = "Unknown" -> "unknown"
      [] v = "UNKNOWN" -> "unknown"
      [] v = "None" -> "none"
      [] v = NULL -> "none"
      [] v = "Haan" -> "haan"
      [] v = "Bahut" -> "bahut"
      [] v = "Acha" -> "acha"
      [] v = "Bahut Acha" -> "bahut acha"
      [] v = "Honda City" -> "honda city"
      [] v = "Raj" -> "raj"
      [] v = "Amit" -> "amit"
      [] v = "Kumar" -> "kumar"
      [] v = "Raj Kumar" -> "raj kumar"
      [] v = "Honda" -> "honda"
      [] v = "City" -> "city"
      [] v = "MH12" -> "mh12"
      [] OTHER -> v

Truthy(v) == v # NULL /\ v # ""

\* Config.GREETING_STOPWORDS
GREETING_STOPWORDS ==
    {"haan", "haji", "han", "haa", "ji", "haanji", "hello ji", "nomoshkar", "namaste",
     "hello", "hi", "hey", "yes", "yeah", "yep", "ok", "okay", "sure", "fine",
     "okey", "yo", "yup", "yaar", "dost", "sirji",
     "shukriya", "shukriya ji", "thank you", "thanks", "thankyou", "thank", "thx",
     "dhanyavaad", "bahut acha", "bahut achha", "achha", "acha", "great", "perfect",
     "done", "good", "nice", "wonderful", "excellent", "super", "awesome",
     "bye", "goodbye", "tata", "cheerio", "see you", "later"}

\* A faulty placeholder test that compares without lowering the case.
IsPlaceholderExact(v) == v \in {"unknown", "none", ""}

IsPlaceholder(v) == Lower(v) \in {"unknown", "none", ""}

RoundHalfEven(num, den) ==
    LET q == num \div den
        r == num % den
    IN  IF 2 * r < den THEN q
        ELSE IF 2 * r > den THEN q + 1
        ELSE IF q % 2 = 0 THEN q ELSE q + 1

(***************************************************************************)
(* booking/scratchpad.py                                                   *)
(***************************************************************************)
Sections == {"customer", "vehicle", "appointment"}

\* A faulty entry constructor that does not keep the superseded value.
FieldEntryNoUndo(value, source, turn, extraction_method, edit_source, previous_value) ==
    [value |-> value, source |-> source, turn |-> turn,
     extraction_method |-> extraction_method, edit_source |-> edit_source,
     previous_value |-> NULL]

FieldEntry(value, source, turn, extraction_method, edit_source, previous_value) ==
    [value |-> value, source |-> source, turn |-> turn,
     extraction_method |-> extraction_method, edit_source |-> edit_source,
     previous_value |-> previous_value]

EmptyDict == [k \in {} |-> NULL]

\* ScratchpadManager.__init__: empty sections, metadata holds only
\* data_completeness (is_bookable and filled_required_fields are absent).
NewScratchpad ==
    [customer |-> EmptyDict, vehicle |-> EmptyDict, appointment |-> EmptyDict,
     metadata |-> [data_completeness |-> 0]]

DictSet(d, k, v) == [x \in DOMAIN d \cup {k} |-> IF x = k THEN v ELSE d[x]]

DictDel(d, k) == [x \in DOMAIN d \ {k} |-> d[x]]

Filled(e) == Truthy(e.value) /\ ~IsPlaceholder(e.value)

FilledCount(d) == Cardinality({k \in DOMAIN d : Filled(d[k])})

required_fields == {"first_name", "last_name", "phone", "brand", "model", "plate", "date"}

FilledRequired(d) == Cardinality({k \in DOMAIN d \cap required_fields : Filled(d[k])})

\* A faulty percentage that is not capped.
CompletenessPctUncapped(filled) == RoundHalfEven(filled * 1000, TOTAL_POSSIBLE_FIELDS)

\* round(filled / total_possible * 100, 1) in tenths of a percent, capped at 100.0
CompletenessPct(filled) ==
    LET pct == RoundHalfEven(filled * 1000, TOTAL_POSSIBLE_FIELDS)
    IN  IF pct > 1000 THEN 1000 ELSE pct

\* data_completeness of a scratchpad, from its filled entries
CompletenessOf(pad) ==
    CompletenessPct(FilledCount(pad.customer) + FilledCount(pad.vehicle)
                      + FilledCount(pad.appointment))

FilledRequiredOf(pad) ==
    FilledRequired(pad.customer) + FilledRequired(pad.vehicle)
        + FilledRequired(pad.appointment)

update_completeness(pad) ==
    [pad EXCEPT !.metadata =
        [data_completeness |-> CompletenessOf(pad),
         is_bookable |-> (FilledRequiredOf(pad) >= REQUIRED_FIELDS_FOR_BOOKING - 1),
         filled_required_fields |-> FilledRequiredOf(pad)]]

\* Faulty variants of the turn comparison: no comparison at all (the last call
\* wins), and a comparison that lets an equal turn through.
TurnRejectsNever(existing_turn, turn) == FALSE

TurnRejectsOnlyEarlier(existing_turn, turn) == turn < existing_turn

\* The turn comparison of add_field: an existing entry with a recorded turn
\* rejects a write whose turn is not strictly greater.
TurnRejects(existing_turn, turn) == turn <= existing_turn

\* add_field returns [ok, pad]: the boolean result and the scratchpad after.
add_field(pad, section, field_name, value, source, turn, extraction_method, edit_source) ==
    IF section \notin Sections THEN [ok |-> FALSE, pad |-> pad]
    ELSE IF value = NULL \/ IsPlaceholder(value) THEN [ok |-> FALSE, pad |-> pad]
    ELSE LET section_dict == pad[section]
             exists == field_name \in DOMAIN section_dict
         IN  IF exists /\ TurnRejects(section_dict[field_name].turn, turn)
             THEN [ok |-> FALSE, pad |-> pad]
             ELSE LET previous_value ==
                          IF exists THEN section_dict[field_name].value ELSE NULL
                      entry == FieldEntry(value, source, turn, extraction_method,
                                          edit_source, previous_value)
                  IN  [ok |-> TRUE,
                       pad |-> update_completeness(
                           [pad EXCEPT ![section] = DictSet(section_dict, field_name, entry)])]

\* get_field returns the entry or None; HasField is "get_field(...) is not None".
HasField(pad, section, field_name) ==
    section \in Sections /\ field_name \in DOMAIN pad[section]

\* A faulty update_field that records the replaced value as previous_value.
update_field_with_undo(pad, section, field_name, new_value) ==
    IF ~HasField(pad, section, field_name) THEN [ok |-> FALSE, pad |-> pad]
    ELSE [ok |-> TRUE,
          pad |-> update_completeness(
              [pad EXCEPT ![section][field_name].value = new_value,
                          ![section][field_name].previous_value =
                              pad[section][field_name].value])]

update_field(pad, section, field_name, new_value) ==
    IF ~HasField(pad, section, field_name) THEN [ok |-> FALSE, pad |-> pad]
    ELSE [ok |-> TRUE,
          pad |-> update_completeness(
              [pad EXCEPT ![section][field_name].value = new_value])]

\* A faulty delete_field that blanks the value and keeps the entry, its turn
\* included.
delete_field_keeping_entry(pad, section, field_name) ==
    IF section \in Sections /\ field_name \in DOMAIN pad[section]
    THEN [ok |-> TRUE,
          pad |-> update_completeness(
              [pad EXCEPT ![section][field_name].value = NULL])]
    ELSE [ok |-> FALSE, pad |-> pad]

delete_field(pad, section, field_name) ==
    IF section \in Sections /\ field_name \in DOMAIN pad[section]
    THEN [ok |-> TRUE,
          pad |-> update_completeness(
              [pad EXCEPT ![section] = DictDel(pad[section], field_name)])]
    ELSE [ok |-> FALSE, pad |-> pad]

\* clear_all empties the sections and writes data_completeness only.
\* clear_all without its last statement: the sections are emptied, the
\* completeness figure is left as it was.
clear_sections(pad) ==
    [pad EXCEPT !.customer = EmptyDict, !.vehicle = EmptyDict,
                !.appointment = EmptyDict]

clear_all(pad) ==
    [pad EXCEPT !.customer = EmptyDict, !.vehicle = EmptyDict,
                !.appointment = EmptyDict, !.metadata.data_completeness = 0]

get_completeness(pad) == pad.metadata.data_completeness

(***************************************************************************)
(* Initial values of the conversation (ConversationContext on first touch) *)
(* and of the bookkeeping variables.                                       *)
(*   hiwrite  for each (section, field): the first-issued valid add_field  *)
(*            write of highest turn since the field was last absent, and   *)
(*            whether only add_field has written the field since then      *)
(*   last     what the last operation was, its inputs and its result       *)
(*   threads  position and local variables of a chat turn and of a          *)
(*            /api/confirmation call served at the same time (SpecConc)     *)
(***************************************************************************)
NoOp == [op |-> "none"]

\* No request of the conversation is being served concurrently.
NoThreads == [chat |-> [pc |-> "idle"], btn |-> [pc |-> "idle"]]

InitPadVars ==
    /\ scratchpad = NewScratchpad
    /\ hiwrite = EmptyDict

\* The conversation ids of the requests, and the two dictionaries keyed by
\* them before any request: ScratchpadCoordinator.scratchpad_managers and the
\* contexts of the ConversationManager.
ConversationIds == {"A", "B"}
NoStore == <<>>

\* scratchpad, state, user_data and metadata show the conversation of
\* conversation_id; the specifications of one conversation leave the
\* dictionaries and the id alone.
InitStore ==
    /\ scratchpad_managers = NoStore
    /\ conversations = NoStore
    /\ conversation_id = NULL

\* The deployment runs with the mode written in config.py.
InitMode == confirmation_mode = CONFIRMATION_MODE

NewContext ==
    [state |-> GREETING, user_data |-> EmptyDict,
     metadata |-> [service_request_id |-> NULL, confirmation_attempts |-> 0,
                   retroactive_enabled |-> TRUE, booking_completed |-> FALSE]]

InitConvVars ==
    /\ state = NewContext.state
    /\ user_data = NewContext.user_data
    /\ metadata = NewContext.metadata
    /\ sr_count = 0
    /\ dumps = <<>>
    /\ threads = NoThreads
    /\ InitStore
    /\ history = <<>>

(***************************************************************************)
(* SpecPad: the scratchpad store driven directly through its public        *)
(* methods, with every section, field, value and turn of the bounded sets. *)
(***************************************************************************)
PadSections == Sections \cup {"billing"}
PadFields == {"first_name", "date"}
PadKeys == {<<"customer", "first_name">>, <<"appointment", "date">>,
            <<"billing", "first_name">>}
ValidValues == {"Raj", "Amit"}
InvalidValues == {"Unknown", "UNKNOWN", "none", "", NULL}
Turns == 0..MaxTurn
\* The add_field calls issued: every valid value at every turn on every key of
\* a section the form has, one call on a section it has not, and every
\* invalid value on one field.
PadCalls ==
    ({k \in PadKeys : k[1] \in Sections} \X ValidValues \X Turns)
        \cup ({<<"billing", "first_name">>} \X {"Raj"} \X {MaxTurn})
        \cup ({<<"customer", "first_name">>} \X InvalidValues \X {MaxTurn})

HiWriteAfterAdd(h, key, value, turn) ==
    IF key[1] \notin Sections \/ value = NULL \/ IsPlaceholder(value) THEN h
    ELSE IF key \notin DOMAIN h
         THEN DictSet(h, key, [value |-> value, turn |-> turn, pure |-> TRUE])
    ELSE IF turn > h[key].turn
         THEN DictSet(h, key, [value |-> value, turn |-> turn, pure |-> h[key].pure])
    ELSE h

PadAddField(key, value, turn) ==
    LET r == add_field(scratchpad, key[1], key[2], value, "test", turn, "user",
                       "initial_entry")
    IN  /\ scratchpad' = r.pad
        /\ hiwrite' = HiWriteAfterAdd(hiwrite, key, value, turn)
        /\ last' = [op |-> "add_field", ok |-> r.ok, section |-> key[1],
                    field |-> key[2], value |-> value, turn |-> turn]
        /\ UNCHANGED <<convVars, threads>>

PadUpdateField(key, value) ==
    LET r == update_field(scratchpad, key[1], key[2], value)
    IN  /\ scratchpad' = r.pad
        /\ hiwrite' = IF key \in DOMAIN hiwrite
                      THEN [hiwrite EXCEPT ![key].pure = FALSE] ELSE hiwrite
        /\ last' = [op |-> "update_field", ok |-> r.ok, section |-> key[1],
                    field |-> key[2], value |-> value]
        /\ UNCHANGED <<convVars, threads>>

PadDeleteField(key) ==
    LET r == delete_field(scratchpad, key[1], key[2])
    IN  /\ scratchpad' = r.pad
        /\ hiwrite' = DictDel(hiwrite, key)
        /\ last' = [op |-> "delete_field", ok |-> r.ok, section |-> key[1],
                    field |-> key[2]]
        /\ UNCHANGED <<convVars, threads>>

PadClearAll ==
    /\ scratchpad' = clear_all(scratchpad)
    /\ hiwrite' = EmptyDict
    /\ last' = [op |-> "clear_all"]
    /\ UNCHANGED <<convVars, threads>>

InitPad == InitPadVars /\ InitConvVars /\ InitMode /\ last = NoOp

NextPad ==
    \/ \E c \in PadCalls : PadAddField(c[1], c[2], c[3]) /\ UNCHANGED envVars
    \/ \E key \in PadKeys, value \in {"Unknown"} :
          PadUpdateField(key, value) /\ UNCHANGED envVars
    \/ \E key \in PadKeys : PadDeleteField(key) /\ UNCHANGED envVars
    \/ PadClearAll /\ UNCHANGED envVars

SpecPad == InitPad /\ [][NextPad]_vars

(***************************************************************************)
(* SpecReuse: add_field, delete_field and clear_all on the scratchpad,     *)
(* where the record of each call also carries, for every field that was    *)
(* removed and has not been written since, the turn of the removed entry.  *)
(***************************************************************************)
\* The removed fields the record of the last call carries.
Removed(record) ==
    IF "removed" \in DOMAIN record THEN record.removed ELSE EmptyDict

\* The (section, field) pairs that have an entry in the scratchpad.
EntryKeys(pad) ==
    UNION {{<<section, field_name>> : field_name \in DOMAIN pad[section]} :
              section \in Sections}

ReuseAddField(key, value, turn) ==
    LET r == add_field(scratchpad, key[1], key[2], value, "test", turn, "user",
                       "initial_entry")
        removed == Removed(last)
    IN  /\ scratchpad' = r.pad
        /\ hiwrite' = HiWriteAfterAdd(hiwrite, key, value, turn)
        /\ last' = [op |-> "add_field", ok |-> r.ok, section |-> key[1],
                    field |-> key[2], value |-> value, turn |-> turn,
                    removed_turn |-> IF key \in DOMAIN removed THEN removed[key] ELSE -1,
                    removed |-> IF r.ok THEN DictDel(removed, key) ELSE removed]
        /\ UNCHANGED <<convVars, threads>>

ReuseDeleteField(key) ==
    LET r == delete_field(scratchpad, key[1], key[2])
        removed == Removed(last)
    IN  /\ scratchpad' = r.pad
        /\ hiwrite' = DictDel(hiwrite, key)
        /\ last' = [op |-> "delete_field", ok |-> r.ok, section |-> key[1],
                    field |-> key[2],
                    removed |-> IF key \in EntryKeys(scratchpad)
                                THEN DictSet(removed, key, scratchpad[key[1]][key[2]].turn)
                                ELSE removed]
        /\ UNCHANGED <<convVars, threads>>

ReuseClearAll ==
    LET removed == Removed(last)
        held == EntryKeys(scratchpad)
    IN  /\ scratchpad' = clear_all(scratchpad)
        /\ hiwrite' = EmptyDict
        /\ last' = [op |-> "clear_all",
                    removed |-> [k \in DOMAIN removed \cup held |->
                                    IF k \in held THEN scratchpad[k[1]][k[2]].turn
                                    ELSE removed[k]]]
        /\ UNCHANGED <<convVars, threads>>

NextReuse ==
    \/ \E c \in PadCalls : ReuseAddField(c[1], c[2], c[3]) /\ UNCHANGED envVars
    \/ \E key \in PadKeys : ReuseDeleteField(key) /\ UNCHANGED envVars
    \/ ReuseClearAll /\ UNCHANGED envVars

SpecReuse == InitPad /\ [][NextReuse]_vars


(***************************************************************************)
(* retroactive_validator.py                                                *)
(***************************************************************************)
REQUIREMENTS(s) ==
    CASE s = GREETING -> <<>>
      [] s = NAME_COLLECTION -> <<"first_name", "last_name">>
      [] s = SERVICE_SELECTION -> <<"first_name">>
      [] s = VEHICLE_DETAILS ->
            <<"first_name", "vehicle_brand", "vehicle_model", "vehicle_plate">>
      [] s = DATE_SELECTION ->
            <<"first_name", "vehicle_brand", "vehicle_model", "vehicle_plate",
              "appointment_date">>
      [] s = CONFIRMATION ->
            <<"first_name", "vehicle_brand", "vehicle_model", "vehicle_plate",
              "appointment_date">>
      [] s = COMPLETED ->
            <<"first_name", "vehicle_brand", "vehicle_model", "vehicle_plate",
              "appointment_date">>
      [] OTHER -> <<>>

Range(seq) == {seq[i] : i \in 1..Len(seq)}

IsMissing(field, known) ==
    field \notin DOMAIN known \/ known[field] = NULL \/ IsPlaceholder(known[field])

\* get_missing_fields: the required fields of the state, in table order, that
\* are absent from, null or placeholder-valued in extracted_data.
get_missing_fields(current_state, extracted_data) ==
    SelectSeq(REQUIREMENTS(current_state), LAMBDA f : IsMissing(f, extracted_data))

DictMerge(a, b) ==
    [k \in DOMAIN a \cup DOMAIN b |-> IF k \in DOMAIN b THEN b[k] ELSE a[k]]

\* What the history scans of RetroactiveScanner return on this turn: for each
\* category a candidate or nothing (the empty dict).
\* f"{first_name} {last_name}".strip()
FullName(first_name, last_name) ==
    CASE last_name = "" -> first_name
      [] first_name = "Raj" /\ last_name = "Kumar" -> "Raj Kumar"
      [] first_name = "Bahut" /\ last_name = "Acha" -> "Bahut Acha"
      [] first_name = "Honda" /\ last_name = "City" -> "Honda City"
      [] OTHER -> <<first_name, last_name>>

NameOf(first_name, last_name) ==
    [k \in {"first_name", "last_name", "full_name"} |->
        CASE k = "first_name" -> first_name
          [] k = "last_name" -> last_name
          [] OTHER -> FullName(first_name, last_name)]

VehicleOf(brand, model, plate) ==
    [k \in {"vehicle_brand", "vehicle_model", "vehicle_plate"} |->
        CASE k = "vehicle_brand" -> brand
          [] k = "vehicle_model" -> model
          [] OTHER -> plate]

DateOf(d) == [k \in {"appointment_date"} |-> d]

NotPlaceholder(v) == v # NULL /\ v # "" /\ Lower(v) \notin {"unknown", "none"}

\* A faulty condition that scans for the name whenever a name field is missing.
NameScanRunsWhenMissing(missing, extracted_data) ==
    {"first_name", "last_name", "full_name"} \cap missing # {}

\* validate_and_complete calls scan_for_name: a name field is missing and the
\* data passed in holds no name key at all.
NameScanRuns(missing, extracted_data) ==
    /\ {"first_name", "last_name", "full_name"} \cap missing # {}
    /\ {"first_name", "last_name", "full_name"} \cap DOMAIN extracted_data = {}

\* validate_and_complete calls scan_for_date: the date is missing and the data
\* passed in holds no appointment_date key.
DateScanRuns(missing, extracted_data) ==
    "appointment_date" \in missing /\ "appointment_date" \notin DOMAIN extracted_data

\* The scans validate_and_complete invokes for the name and the date.
ScansInvoked(current_state, extracted_data) ==
    LET missing == Range(get_missing_fields(current_state, extracted_data))
    IN  {c \in {"name"} : NameScanRuns(missing, extracted_data)}
            \cup {c \in {"date"} : DateScanRuns(missing, extracted_data)}

\* _scan_optional_fields_retroactively: the fields the optional extractor
\* returned that are not keys of updated_data yet ("..._method" keys apart).
OptionalFill(updated_data, optional_fields) ==
    [k \in {f \in DOMAIN optional_fields : f \notin DOMAIN updated_data} |->
        optional_fields[k]]

\* ConversationValidator.validate_and_complete with the scan results found.name,
\* found.vehicle, found.date and the result found.optional of the optional
\* extractor.
validate_and_complete(current_state, extracted_data, found) ==
    LET missing == Range(get_missing_fields(current_state, extracted_data))
        name_scan ==
            IF NameScanRuns(missing, extracted_data) THEN found.name ELSE EmptyDict
        veh_missing == {"vehicle_brand", "vehicle_model", "vehicle_plate"} \cap missing
        veh_fill1 ==
            IF {"vehicle_brand", "vehicle_model"} \cap missing # {}
            THEN [k \in {f \in DOMAIN found.vehicle \cap veh_missing :
                            NotPlaceholder(found.vehicle[f])} |-> found.vehicle[k]]
            ELSE EmptyDict
        updated1 == DictMerge(extracted_data, veh_fill1)
        veh_fill2 ==
            IF /\ "vehicle_plate" \in missing
               /\ ("vehicle_plate" \notin DOMAIN updated1
                   \/ updated1["vehicle_plate"] \in {"Unknown", "unknown", "none", NULL})
               /\ "vehicle_plate" \in DOMAIN found.vehicle
               /\ NotPlaceholder(found.vehicle["vehicle_plate"])
            THEN [k \in {"vehicle_plate"} |-> found.vehicle[k]]
            ELSE EmptyDict
        veh_fill == DictMerge(veh_fill1, veh_fill2)
        date_scan ==
            IF DateScanRuns(missing, extracted_data) THEN found.date ELSE EmptyDict
        updated_data ==
            DictMerge(DictMerge(DictMerge(extracted_data, name_scan), veh_fill),
                      date_scan)
    IN  IF missing = {} THEN extracted_data
        ELSE DictMerge(updated_data, OptionalFill(updated_data, found.optional))

(***************************************************************************)
(* Code of the repository that is not among the source files, modelled     *)
(* from the specification: ConversationManager, StateCoordinator,          *)
(* ServiceRequestBuilder.                                                  *)
(***************************************************************************)
\* ConversationManager.update_state: a transition that is not in the edge
\* table is rejected and the state kept; the caller gets False.
update_state(cur, new_state) ==
    IF new_state \in VALID_TRANSITIONS(cur)
    THEN [ok |-> TRUE, state |-> new_state]
    ELSE [ok |-> FALSE, state |-> cur]

\* ConversationManager.store_user_data: user_data[key] = value.
store_user_data(ud, data) == DictMerge(ud, data)

\* history_utils.filter_dspy_history_to_user_only: the user-authored entries
\* of the transcript, in order.
filter_dspy_history_to_user_only(dspy_history) ==
    SelectSeq(dspy_history, LAMBDA msg : msg.role = "user")

\* models.VehicleBrandEnum: the brand names, lower-cased (those the inputs of
\* the model can meet).
VehicleBrandEnum == {"honda", "toyota", "maruti"}

\* _is_vehicle_brand of RetroactiveScanner and ExtractionCoordinator: the
\* text is part of a brand name or holds one; on the names of the model this
\* is equality with a brand name.
is_vehicle_brand(text) == Truthy(text) /\ Lower(text) \in VehicleBrandEnum

\* StateCoordinator.determine_next_state: decided from the current state, the
\* signals read off the user message and the two field-presence flags it is
\* passed; it is not passed the conversation metadata.
determine_next_state(cur, sig, all_required_fields_present, can_advance_from_current_state) ==
    CASE cur = GREETING -> NAME_COLLECTION
      [] cur = NAME_COLLECTION ->
            IF can_advance_from_current_state THEN VEHICLE_DETAILS ELSE cur
      [] cur = VEHICLE_DETAILS ->
            IF can_advance_from_current_state THEN DATE_SELECTION ELSE cur
      [] cur = DATE_SELECTION ->
            IF all_required_fields_present THEN CONFIRMATION ELSE cur
      [] cur = CONFIRMATION ->
            IF sig.cancel THEN CANCELLED
            ELSE IF sig.edit THEN DATE_SELECTION
            ELSE IF sig.confirm /\ all_required_fields_present THEN COMPLETED
            ELSE cur
      [] OTHER -> cur

\* ServiceRequestBuilder.build: a new ServiceRequest with a new unique id.
SRId(n) ==
    CASE n = 1 -> "SR-0001" [] n = 2 -> "SR-0002" [] n = 3 -> "SR-0003"
      [] n = 4 -> "SR-0004" [] OTHER -> "SR-0005"

(***************************************************************************)
(* service_request_dumper.py                                               *)
(***************************************************************************)
\* dump_service_request writes the snapshot to datadump/<service_request_id>.json,
\* replacing a file of that name.  The variable dumps logs the calls that wrote
\* (whose id, by which entry point); DumpFile is one entry of the log and
\* datadump the names of the files the directory holds.
DumpFile(service_request_id, confirmation_method) ==
    [service_request_id |-> service_request_id,
     confirmation_method |-> confirmation_method]

datadump == {dumps[i].service_request_id : i \in 1..Len(dumps)}

(***************************************************************************)
(* orchestrator/scratchpad_coordinator.py and the field mapping of         *)
(* MessageProcessor.process_message (step 8.4)                             *)
(***************************************************************************)
CollectSection(field_name) ==
    IF field_name \in {"first_name", "last_name", "full_name", "phone", "address"}
    THEN "customer"
    ELSE IF field_name \in {"vehicle_brand", "vehicle_model", "vehicle_plate",
                            "vehicle_type"}
    THEN "vehicle"
    ELSE IF field_name \in {"appointment_date", "service_type", "service_tier",
                            "time_slot", "notes"}
    THEN "appointment"
    ELSE NULL

CollectField(field_name) ==
    CASE field_name = "vehicle_brand" -> "brand"
      [] field_name = "vehicle_model" -> "model"
      [] field_name = "vehicle_plate" -> "plate"
      [] field_name = "appointment_date" -> "date"
      [] OTHER -> field_name

\* The turn number process_message and update_from_extraction pass to add_field.
CollectTurn == 0

\* One iteration of the loop of step 8.4.
CollectOne(pad, field_name, value) ==
    IF value = NULL \/ CollectSection(field_name) = NULL THEN pad
    ELSE add_field(pad, CollectSection(field_name), CollectField(field_name), value,
                   "collection", CollectTurn, "collected", "initial_entry").pad

RECURSIVE CollectAll(_, _, _)
\* The loop of step 8.4 over the keys of all_collected_data.
CollectAll(pad, data, keys) ==
    IF keys = {} THEN pad
    ELSE LET k == CHOOSE x \in keys : TRUE
         IN  CollectAll(CollectOne(pad, k, data[k]), data, keys \ {k})

update_from_extraction(pad, st, field_name, value) ==
    CASE st = NAME_COLLECTION ->
            IF field_name \in {"first_name", "last_name", "full_name"}
            THEN add_field(pad, "customer", field_name, value, "extraction",
                           CollectTurn, "user", "initial_entry").pad
            ELSE pad
      [] st = VEHICLE_DETAILS ->
            add_field(pad, "vehicle",
                      IF field_name \in {"vehicle_brand", "vehicle_model", "vehicle_plate"}
                      THEN CollectField(field_name) ELSE field_name,
                      value, "extraction", CollectTurn, "user", "initial_entry").pad
      [] st = DATE_SELECTION ->
            add_field(pad, "appointment",
                      IF field_name = "appointment_date" THEN "date" ELSE field_name,
                      value, "extraction", CollectTurn, "user", "initial_entry").pad
      [] OTHER -> pad

RECURSIVE UpdateAll(_, _, _, _)
\* The loop of step 10 over the keys of extracted_data, with next_state.
UpdateAll(pad, data, keys, st) ==
    IF keys = {} THEN pad
    ELSE LET k == CHOOSE x \in keys : TRUE
         IN  UpdateAll(update_from_extraction(pad, st, k, data[k]), data,
                       keys \ {k}, st)

(***************************************************************************)
(* orchestrator/message_processor.py: MessageProcessor.process_message     *)
(***************************************************************************)
ValidPart(d) == [k \in {x \in DOMAIN d : d[x] # NULL /\ ~IsPlaceholder(d[x])} |-> d[k]]

Vehicles == {VehicleOf("Honda", "City", "MH12")}
Dates == {DateOf("2025-01-15")}

\* extract_for_state: nothing, or the fields of one category.  The user
\* answers the question of the current state, or restates the name when asked
\* to confirm.
Extractions(s) ==
    {EmptyDict} \cup
    (CASE s = GREETING -> {NameOf("Raj", "Kumar")}
       [] s = NAME_COLLECTION -> {NameOf("Amit", "")}
       [] s = VEHICLE_DETAILS -> Vehicles
       [] s = DATE_SELECTION -> Dates
       [] OTHER -> {})

\* Results of the history scans of one turn.
NoFind ==
    [name |-> EmptyDict, vehicle |-> EmptyDict, date |-> EmptyDict,
     optional |-> EmptyDict]
RetroFinds ==
    {NoFind,
     [NoFind EXCEPT !.name = NameOf("Raj", "Kumar")],
     [NoFind EXCEPT !.vehicle = VehicleOf("Honda", "City", "MH12")],
     [NoFind EXCEPT !.date = DateOf("2025-01-15")]}

\* What the keyword lists and the confirmation-intent detector read off the
\* message: confirm (keyword or detector), edit keyword, cancel keyword.
NoSignal == [confirm |-> FALSE, edit |-> FALSE, cancel |-> FALSE]
Signals == [confirm : BOOLEAN, edit : BOOLEAN, cancel : BOOLEAN]
ConfirmSignal == [confirm |-> TRUE, edit |-> FALSE, cancel |-> FALSE]

Failures == {"none", "build", "dump"}

\* Whether a chat turn that starts in the current state runs the
\* retroactive-completion pass (message_processor.py 205-212).
RunsRetroactivePass == state = GREETING \/ metadata.retroactive_enabled

\* The values process_message computes up to the confirmation flow (steps 1-8.4).
Collected(extracted, found) ==
    LET ud1 == store_user_data(user_data, extracted)
        enabled == RunsRetroactivePass
        retroactive_data ==
            IF enabled THEN validate_and_complete(state, DictMerge(ud1, extracted), found)
            ELSE EmptyDict
        extracted2 == IF retroactive_data # EmptyDict
                      THEN DictMerge(extracted, ValidPart(retroactive_data))
                      ELSE extracted
        ud2 == store_user_data(ud1, ValidPart(retroactive_data))
        merged_data == DictMerge(ud2, extracted2)
    IN  [user_data |-> ud2,
         extracted_data |-> extracted2,
         retroactive_enabled |-> enabled,
         has_all_required |-> Range(REQUIREMENTS(CONFIRMATION)) \subseteq DOMAIN merged_data,
         can_advance |-> Range(REQUIREMENTS(state)) \subseteq DOMAIN merged_data,
         merged_data |-> merged_data,
         pad |-> CollectAll(scratchpad, merged_data, DOMAIN merged_data)]

\* The idempotency check of the inline trigger (lines 373-376).
ChatReusesExisting(existing_service_request_id, scratchpad_completeness) ==
    existing_service_request_id # NULL /\ scratchpad_completeness = 0

\* Whether the scratchpad is cleared after a dump that raised (lines 478-490).
ClearAfterDump(dump_failed) == TRUE

\* A faulty trigger that finalizes on an explicit confirmation only.
ShouldFinalizeOnlyExplicit(auto_confirmed, user_confirmed, user_wants_edit, user_wants_cancel) ==
    user_confirmed

\* The condition under which the confirmation flow finalizes (line 367).
ShouldFinalize(auto_confirmed, user_confirmed, user_wants_edit, user_wants_cancel) ==
    (auto_confirmed /\ ~user_wants_edit /\ ~user_wants_cancel) \/ user_confirmed

\* A component of the turn that raised, and the user_data keys the message
\* carried for it: an extractor of extract_for_state (its except branch adds
\* nothing to extracted), classify_intent (answers "inquire"), the
\* confirmation-intent detector (the keywords decide) or the retroactive sweep
\* (retroactive_data stays empty).
NoFault == [kind |-> "none", fields |-> {}]
FaultKinds == {"extractor", "intent", "detector", "sweep"}

\* A trigger branch that builds the ServiceRequest whatever the mode.
FinalizesInAnyMode(trigger, mode) == trigger

\* Whether the trigger branch finalizes inline (line 371).
FinalizesInChat(trigger, mode) == trigger /\ mode = "CHAT"

ProcessWith(c, sig, fail, fault) ==
    LET in_conf == state = CONFIRMATION /\ c.has_all_required
        attempts1 == metadata.confirmation_attempts + 1
        auto_confirmed == attempts1 >= CONFIRMATION_AUTO_CONFIRM_ATTEMPTS
        trigger == in_conf /\ ShouldFinalize(auto_confirmed, sig.confirm, sig.edit, sig.cancel)
        chat == FinalizesInChat(trigger, confirmation_mode)
        reuse == chat /\ ChatReusesExisting(metadata.service_request_id,
                                            get_completeness(c.pad))
        create == chat /\ ~reuse
        service_request_id ==
            IF reuse THEN metadata.service_request_id
            ELSE IF create THEN SRId(sr_count + 1) ELSE NULL
        md1 == [metadata EXCEPT
                  !.retroactive_enabled = c.retroactive_enabled,
                  !.confirmation_attempts =
                      IF ~in_conf THEN @
                      ELSE IF create THEN 0
                      ELSE IF trigger THEN attempts1
                      ELSE IF sig.edit \/ sig.cancel THEN 0
                      ELSE attempts1,
                  !.service_request_id = IF create THEN service_request_id ELSE @,
                  !.booking_completed = IF create THEN TRUE ELSE @]
        next_state == determine_next_state(state, sig, c.has_all_required, c.can_advance)
        flags == [has_all_required |-> c.has_all_required,
                  can_advance_from_current_state |-> c.can_advance,
                  current_state |-> state, merged_data |-> c.merged_data]
        upd == IF next_state # state THEN update_state(state, next_state)
               ELSE [ok |-> TRUE, state |-> state]
        md2 == [md1 EXCEPT !.retroactive_enabled =
                   IF next_state = COMPLETED /\ md1.booking_completed THEN FALSE ELSE @]
    IN  \E pad2 \in {IF c.extracted_data # EmptyDict /\ service_request_id = NULL
                      THEN UpdateAll(c.pad, c.extracted_data,
                                     DOMAIN c.extracted_data, next_state)
                      ELSE c.pad} :
        LET dumping == service_request_id # NULL /\ confirmation_mode = "CHAT"
                          /\ get_completeness(pad2) # 0
        IN
        /\ fail = "build" => (create /\ attempts1 <= MaxAttempts)
        /\ (trigger /\ ~create) => attempts1 <= MaxAttempts
        /\ fail = "dump" => dumping
        /\ IF fail = "build"
           THEN \* ServiceRequestBuilder.build raised: the exception leaves
                \* process_message at line 383
                /\ user_data' = c.user_data
                /\ scratchpad' = c.pad
                /\ metadata' = [metadata EXCEPT
                                  !.retroactive_enabled = c.retroactive_enabled,
                                  !.confirmation_attempts = attempts1]
                /\ UNCHANGED <<state, sr_count, dumps>>
                /\ last' = [op |-> "process_message", fin |-> TRUE, ret |-> NULL,
                            failed |-> fail, rejected |-> NULL, sig |-> sig,
                            fault |-> fault, flags |-> flags]
           ELSE /\ user_data' = c.user_data
                /\ state' = upd.state
                /\ metadata' = md2
                /\ sr_count' = IF create THEN sr_count + 1 ELSE sr_count
                /\ dumps' = IF dumping /\ fail # "dump"
                            THEN Append(dumps, DumpFile(service_request_id, "chat"))
                            ELSE dumps
                /\ scratchpad' = IF dumping /\ ClearAfterDump(fail = "dump")
                                 THEN clear_all(pad2) ELSE pad2
                /\ last' = [op |-> "process_message", fin |-> chat,
                            ret |-> service_request_id, failed |-> fail,
                            rejected |-> IF upd.ok THEN NULL ELSE next_state,
                            sig |-> sig, fault |-> fault, flags |-> flags]
        /\ UNCHANGED <<hiwrite, threads>>

ProcessMessage(extracted, found) ==
    /\ sr_count < MaxSR /\ Len(dumps) < MaxDumps
    /\ \E c \in {Collected(extracted, found)} :
          \E sig \in Signals, fail \in Failures :
             /\ state # CONFIRMATION => sig = NoSignal
             /\ ProcessWith(c, sig, fail, NoFault)

\* process_message on a turn in which one component raised while the message
\* carried `said`; ServiceRequestBuilder.build does not raise on such a turn.
ProcessMessageFaulty(said, found, kind) ==
    /\ sr_count < MaxSR /\ Len(dumps) < MaxDumps
    /\ kind = "extractor" => said # EmptyDict
    /\ kind = "sweep" => RunsRetroactivePass /\ found = NoFind
    /\ \E extracted \in {IF kind = "extractor" THEN EmptyDict ELSE said} :
       \E c \in {Collected(extracted, found)} :
          \E sig \in Signals, fail \in Failures \ {"build"} :
             /\ state # CONFIRMATION => sig = NoSignal
             /\ kind = "detector" => state = CONFIRMATION /\ c.has_all_required
             /\ ProcessWith(c, sig, fail,
                            [kind |-> kind,
                             fields |-> IF kind = "extractor" THEN DOMAIN said ELSE {}])

(***************************************************************************)
(* main.py: handle_confirmation (POST /api/confirmation), with             *)
(* BookingFlowManager.process_for_booking and BookingFlowManager.reset     *)
(* of booking/booking_flow_integration.py                                  *)
(***************************************************************************)
ActionParams == {"confirm", "edit", "cancel", "other"}

\* What parse_edit_instruction reads off user_input: nothing, or a field and
\* its new value.
NoEdit == <<>>
EditInstructions == {NoEdit, <<"customer", "first_name", "Amit">>,
                     <<"customer", "phone", "Amit">>}

\* process_for_booking with extracted_data = {} and intent = None;
\* should_confirm is the answer of BookingIntentDetector for user_input.
process_for_booking(action_param, should_confirm, edit) ==
    LET current_state == state
        intent == should_confirm /\ current_state # CONFIRMATION
        in_conf == ~intent /\ current_state = CONFIRMATION
        confirm == in_conf /\ action_param = "confirm"
        req_to == IF intent THEN CONFIRMATION
                  ELSE IF confirm THEN COMPLETED
                  ELSE IF in_conf /\ action_param = "cancel" THEN CANCELLED
                  ELSE NULL
        upd == IF req_to # NULL THEN update_state(current_state, req_to)
               ELSE [ok |-> TRUE, state |-> current_state]
    IN  [state |-> upd.state,
         req_to |-> req_to,
         req_ok |-> upd.ok,
         built |-> confirm,
         service_request |-> IF confirm THEN SRId(sr_count + 1) ELSE NULL,
         service_request_id_recorded |->
             IF confirm THEN SRId(sr_count + 1) ELSE metadata.service_request_id,
         pad |-> IF in_conf /\ action_param = "edit" /\ edit # NoEdit
                 THEN update_field(scratchpad, edit[1], edit[2], edit[3]).pad
                 ELSE scratchpad]

ConfirmWith(b, action, edit, fail) ==
    LET \* Layer 1 and Layer 2
        id2 == IF b.service_request # NULL THEN b.service_request
               ELSE b.service_request_id_recorded
        \* Layer 3
        rebuild == id2 = NULL /\ b.state = COMPLETED
        service_request_id == IF rebuild THEN SRId(sr_count + 1) ELSE id2
        dumping == service_request_id # NULL /\ get_completeness(b.pad) # 0
    IN  /\ fail = "build" => (b.built \/ rebuild)
        /\ fail = "dump" => dumping
        /\ IF fail = "build"
           THEN \* ServiceRequestBuilder.build raised: answered with status 500
                /\ UNCHANGED <<scratchpad, state, user_data, metadata, sr_count, dumps>>
                /\ last' = [op |-> "handle_confirmation", fin |-> action = "confirm",
                            ret |-> NULL,
                            failed |-> fail, rejected |-> NULL,
                            action |-> action, edit |-> edit]
           ELSE /\ state' = b.state
                /\ metadata' = [metadata EXCEPT !.service_request_id = service_request_id]
                /\ sr_count' = IF b.built \/ rebuild THEN sr_count + 1 ELSE sr_count
                /\ dumps' = IF dumping /\ fail # "dump"
                            THEN Append(dumps, DumpFile(service_request_id, "button"))
                            ELSE dumps
                /\ scratchpad' = IF dumping /\ ClearAfterDump(fail = "dump")
                                 THEN clear_all(b.pad) ELSE b.pad
                /\ UNCHANGED user_data
                /\ last' = [op |-> "handle_confirmation", fin |-> action = "confirm",
                            ret |-> service_request_id, failed |-> fail,
                            rejected |-> IF b.req_ok THEN NULL ELSE b.req_to,
                            action |-> action, edit |-> edit]
        /\ UNCHANGED <<hiwrite, threads>>

HandleConfirmation(action, should_confirm, edit) ==
    /\ sr_count < MaxSR /\ Len(dumps) < MaxDumps
    /\ edit # NoEdit => action = "edit"
    /\ \E b \in {process_for_booking(action, should_confirm, edit)} :
          \E fail \in Failures : ConfirmWith(b, action, edit, fail)

\* A faulty reset that assigns GREETING to the state itself.
ResetAssignsState ==
    /\ scratchpad' = clear_all(scratchpad)
    /\ state' = GREETING
    /\ last' = [op |-> "reset", fin |-> FALSE, ret |-> NULL, failed |-> "none",
                rejected |-> NULL]
    /\ UNCHANGED <<hiwrite, user_data, metadata, sr_count, dumps, threads>>

\* BookingFlowManager.reset: the scratchpad is cleared, then GREETING requested.
Reset ==
    LET upd == update_state(state, GREETING)
    IN  /\ scratchpad' = clear_all(scratchpad)
        /\ state' = upd.state
        /\ last' = [op |-> "reset", fin |-> FALSE, ret |-> NULL, failed |-> "none",
                    rejected |-> IF upd.ok THEN NULL ELSE GREETING]
        /\ UNCHANGED <<hiwrite, user_data, metadata, sr_count, dumps, threads>>

Init == InitPadVars /\ InitConvVars /\ InitMode /\ last = NoOp

Next ==
    \/ \E extracted \in Extractions(state), found \in RetroFinds :
          /\ found # NoFind =>
                /\ extracted = EmptyDict
                /\ get_missing_fields(state, user_data) # <<>>
          /\ ProcessMessage(extracted, found)
          /\ UNCHANGED envVars
    \/ \E action \in ActionParams, should_confirm \in BOOLEAN,
          edit \in EditInstructions :
          /\ state # CONFIRMATION => action = "confirm"
          /\ HandleConfirmation(action, should_confirm, edit)
          /\ UNCHANGED envVars
    \/ Reset /\ UNCHANGED envVars

Spec == Init /\ [][Next]_vars

(***************************************************************************)
(* The chat endpoint alone, with turns on which a component raises.        *)
(***************************************************************************)
NextFault ==
    \/ \E said \in Extractions(state), found \in RetroFinds, kind \in FaultKinds :
          /\ found # NoFind =>
                /\ (said = EmptyDict \/ kind = "extractor")
                /\ get_missing_fields(state, user_data) # <<>>
          /\ ProcessMessageFaulty(said, found, kind)
          /\ UNCHANGED envVars
    \/ \E extracted \in Extractions(state), found \in RetroFinds :
          /\ found # NoFind =>
                /\ extracted = EmptyDict
                /\ get_missing_fields(state, user_data) # <<>>
          /\ ProcessMessage(extracted, found)
          /\ UNCHANGED envVars
    \/ Reset /\ UNCHANGED envVars

SpecFault == Init /\ [][NextFault]_vars

(***************************************************************************)
(* Two conversations served by one orchestrator: every request names its   *)
(* conversation id, and the scratchpad and the context it works on are the *)
(* ones the two dictionaries hold for that id.                             *)
(***************************************************************************)
\* ScratchpadCoordinator.get_or_create: the dictionary after the call.
get_or_create(managers, id) ==
    [k \in DOMAIN managers \cup {id} |->
        IF k \in DOMAIN managers THEN managers[k] ELSE NewScratchpad]

\* ConversationManager.get_or_create: the dictionary after the call.
get_or_create_context(contexts, id) ==
    [k \in DOMAIN contexts \cup {id} |->
        IF k \in DOMAIN contexts THEN contexts[k] ELSE NewContext]

\* A coordinator that hands out one ScratchpadManager for every id.
WithOneManager(managers, id, pad) == [k \in DOMAIN managers \cup {id} |-> pad]

\* The dictionary once the ScratchpadManager obtained for id holds pad.
WithManager(managers, id, pad) == [get_or_create(managers, id) EXCEPT ![id] = pad]

\* The dictionary once the context obtained for id holds ctx.
WithContext(contexts, id, ctx) == [get_or_create_context(contexts, id) EXCEPT ![id] = ctx]

\* A request for conversation id arrives: its scratchpad and context are
\* looked up, and created on first touch.
Serve(id) ==
    /\ id # conversation_id
    /\ conversation_id' = id
    /\ scratchpad_managers' = get_or_create(scratchpad_managers, id)
    /\ conversations' = get_or_create_context(conversations, id)
    /\ scratchpad' = scratchpad_managers'[id]
    /\ state' = conversations'[id].state
    /\ user_data' = conversations'[id].user_data
    /\ metadata' = conversations'[id].metadata
    /\ last' = [op |-> "request", fin |-> FALSE, ret |-> NULL, failed |-> "none",
                rejected |-> NULL]
    /\ UNCHANGED <<hiwrite, sr_count, dumps, threads, confirmation_mode, history>>

\* What the operation of the request did to the scratchpad and the context
\* of its id is what the dictionaries hold afterwards.
Served ==
    /\ conversation_id # NULL
    /\ scratchpad_managers' = WithManager(scratchpad_managers, conversation_id, scratchpad')
    /\ conversations' =
          WithContext(conversations, conversation_id,
                      [state |-> state', user_data |-> user_data', metadata |-> metadata'])
    /\ UNCHANGED <<conversation_id, confirmation_mode, history>>

\* The requests of the two conversations: chat turns that answer the question
\* asked (or, in CONFIRMATION, confirm or say nothing of the kind), the
\* confirm and cancel buttons, and a reset once the conversation is over; no
\* component raises.
NextIso ==
    \/ \E id \in ConversationIds : Serve(id)
    \/ \E extracted \in Extractions(state), sig \in {NoSignal, ConfirmSignal} :
          /\ sr_count < MaxSR /\ Len(dumps) < MaxDumps
          /\ state # CONFIRMATION => sig = NoSignal
          /\ extracted = EmptyDict => Extractions(state) = {EmptyDict}
          /\ \E c \in {Collected(extracted, NoFind)} : ProcessWith(c, sig, "none", NoFault)
          /\ Served
    \/ \E action \in {"confirm", "cancel"} :
          /\ sr_count < MaxSR /\ Len(dumps) < MaxDumps
          /\ state = CONFIRMATION
          /\ \E b \in {process_for_booking(action, FALSE, NoEdit)} :
                ConfirmWith(b, action, NoEdit, "none")
          /\ Served
    \/ state \in {COMPLETED, CANCELLED} /\ Reset /\ Served

SpecIso == Init /\ [][NextIso]_vars

(***************************************************************************)
(* The conversation of Spec in a deployment whose config.py sets           *)
(* CONFIRMATION_MODE = "BUTTON".                                           *)
(***************************************************************************)
InitButton ==
    InitPadVars /\ InitConvVars /\ confirmation_mode = "BUTTON" /\ last = NoOp

SpecButton == InitButton /\ [][Next]_vars

(***************************************************************************)
(*                         Properties of the claims                        *)
(***************************************************************************)
EntryOf(key) == scratchpad[key[1]][key[2]]

RealKeys == {key \in PadKeys : key[1] \in Sections}

AddValue(pad, key, value, turn) ==
    add_field(pad, key[1], key[2], value, "test", turn, "user", "initial_entry").pad

\* C4: after any sequence of add_field calls on a field, the stored value and
\* turn are those of the write of highest turn (hiwrite); and from any reachable
\* scratchpad, two valid writes at turns t1 < t2 (t2 above the stored turn)
\* leave the t2 value stored whichever of the two is made first.
C4_LaterTurnWins ==
    /\ \A key \in DOMAIN hiwrite :
          hiwrite[key].pure =>
             /\ HasField(scratchpad, key[1], key[2])
             /\ EntryOf(key).value = hiwrite[key].value
             /\ EntryOf(key).turn = hiwrite[key].turn
    /\ \A key \in RealKeys, v1 \in ValidValues, v2 \in ValidValues,
          t1 \in Turns, t2 \in Turns :
          (t1 < t2 /\ (HasField(scratchpad, key[1], key[2]) => EntryOf(key).turn < t2)) =>
             /\ AddValue(AddValue(scratchpad, key, v1, t1), key, v2, t2)[key[1]][key[2]].value = v2
             /\ AddValue(AddValue(scratchpad, key, v2, t2), key, v1, t1)[key[1]][key[2]].value = v2

\* C4 witness: the later-turn write was made first, and an earlier-turn write
\* of another value has just been dropped.
C4_Witness ==
    /\ last.op = "add_field" /\ ~last.ok /\ last.value \in ValidValues
    /\ <<last.section, last.field>> \in DOMAIN hiwrite
    /\ hiwrite[<<last.section, last.field>>].pure
    /\ hiwrite[<<last.section, last.field>>].turn > last.turn
    /\ hiwrite[<<last.section, last.field>>].value # last.value

\* C5: an add_field call whose turn is <= the turn of the stored entry returns
\* False and leaves the whole scratchpad (entries and completeness values)
\* unchanged; and delivering again the call just made changes nothing.
C5_StaleWriteRejected ==
    [][ /\ (/\ last'.op = "add_field"
            /\ HasField(scratchpad, last'.section, last'.field)
            /\ last'.turn <= scratchpad[last'.section][last'.field].turn)
           => (~last'.ok /\ scratchpad' = scratchpad)
        /\ last'.op = "add_field"
           => AddValue(scratchpad', <<last'.section, last'.field>>, last'.value,
                       last'.turn) = scratchpad' ]_vars

\* C5 witness: a valid value offered at the turn of the stored entry, which holds
\* another value, has just been rejected.
C5_Witness ==
    /\ last.op = "add_field" /\ ~last.ok /\ last.value \in ValidValues
    /\ HasField(scratchpad, last.section, last.field)
    /\ scratchpad[last.section][last.field].turn = last.turn
    /\ scratchpad[last.section][last.field].value # last.value

(***************************************************************************)
(* SpecConc: a chat turn (process_message, run by chat_api.generate_response *)
(* in a pool thread) and a /api/confirmation call with action "confirm"      *)
(* served at the same time for one conversation that waits in CONFIRMATION  *)
(* with all fields collected.  Each statement that reads or writes the      *)
(* shared context, scratchpad or dump directory is one step.  The chat      *)
(* message is a confirming "yes" that carries no data.                      *)
(***************************************************************************)
FullData ==
    DictMerge(DictMerge(NameOf("Raj", "Kumar"), VehicleOf("Honda", "City", "MH12")),
              DateOf("2025-01-15"))

Populated(pad, data) == CollectAll(pad, data, DOMAIN data)

ChatStart == [pc |-> "read_state", cs |-> NULL, existing |-> NULL, comp |-> 0,
              id |-> NULL, ret |-> NULL]
BtnStart == [pc |-> "read_state", cs |-> NULL, id |-> NULL, ret |-> NULL]

InitConc ==
    /\ state = CONFIRMATION
    /\ user_data = FullData
    /\ scratchpad = Populated(NewScratchpad, FullData)
    /\ hiwrite = EmptyDict
    /\ \E a \in 0 .. CONFIRMATION_AUTO_CONFIRM_ATTEMPTS - 1 :
          metadata = [service_request_id |-> NULL, confirmation_attempts |-> a,
                      retroactive_enabled |-> TRUE, booking_completed |-> FALSE]
    /\ sr_count = 0
    /\ dumps = <<>>
    /\ last = NoOp
    /\ threads = [chat |-> ChatStart, btn |-> BtnStart]
    /\ InitStore
    /\ history = <<>>
    /\ InitMode

ConcFrame == UNCHANGED <<hiwrite, last>>

\* process_message, line 99
ChatReadState ==
    /\ threads.chat.pc = "read_state"
    /\ threads' = [threads EXCEPT !.chat.cs = state, !.chat.pc = "populate"]
    /\ UNCHANGED <<scratchpad, state, user_data, metadata, sr_count, dumps>>
    /\ ConcFrame

\* process_message, lines 254-330
ChatPopulate ==
    /\ threads.chat.pc = "populate"
    /\ scratchpad' = Populated(scratchpad, user_data)
    /\ threads' = [threads EXCEPT !.chat.pc =
          IF /\ threads.chat.cs = CONFIRMATION
             /\ Range(REQUIREMENTS(CONFIRMATION)) \subseteq DOMAIN user_data
          THEN "check" ELSE "next_state"]
    /\ UNCHANGED <<state, user_data, metadata, sr_count, dumps>>
    /\ ConcFrame

\* process_message, lines 331-374
ChatCheck ==
    /\ threads.chat.pc = "check"
    /\ metadata' = [metadata EXCEPT !.confirmation_attempts = @ + 1]
    /\ threads' = [threads EXCEPT !.chat.existing = metadata.service_request_id,
                                  !.chat.comp = get_completeness(scratchpad),
                                  !.chat.pc = "build"]
    /\ UNCHANGED <<scratchpad, state, user_data, sr_count, dumps>>
    /\ ConcFrame

\* process_message, lines 376-384
ChatBuild ==
    /\ threads.chat.pc = "build"
    /\ IF ChatReusesExisting(threads.chat.existing, threads.chat.comp)
       THEN /\ threads' = [threads EXCEPT !.chat.id = threads.chat.existing,
                                          !.chat.pc = "next_state"]
            /\ UNCHANGED sr_count
       ELSE /\ sr_count' = sr_count + 1
            /\ threads' = [threads EXCEPT !.chat.id = SRId(sr_count + 1),
                                          !.chat.pc = "record"]
    /\ UNCHANGED <<scratchpad, state, user_data, metadata, dumps>>
    /\ ConcFrame

\* process_message, lines 387-396
ChatRecord ==
    /\ threads.chat.pc = "record"
    /\ metadata' = [metadata EXCEPT !.service_request_id = threads.chat.id,
                                    !.confirmation_attempts = 0,
                                    !.booking_completed = TRUE]
    /\ threads' = [threads EXCEPT !.chat.pc = "next_state"]
    /\ UNCHANGED <<scratchpad, state, user_data, sr_count, dumps>>
    /\ ConcFrame

\* process_message, lines 410-425
ChatNextState ==
    /\ threads.chat.pc = "next_state"
    /\ LET has_all == Range(REQUIREMENTS(CONFIRMATION)) \subseteq DOMAIN user_data
           can_adv == Range(REQUIREMENTS(threads.chat.cs)) \subseteq DOMAIN user_data
           next_state == determine_next_state(threads.chat.cs, ConfirmSignal,
                                              has_all, can_adv)
       IN  /\ state' = IF next_state # threads.chat.cs
                       THEN update_state(state, next_state).state ELSE state
           /\ metadata' = [metadata EXCEPT !.retroactive_enabled =
                  IF next_state = COMPLETED /\ metadata.booking_completed
                  THEN FALSE ELSE @]
    /\ threads' = [threads EXCEPT !.chat.pc = "final"]
    /\ UNCHANGED <<scratchpad, user_data, sr_count, dumps>>
    /\ ConcFrame

\* process_message, lines 468-475
ChatFinal ==
    /\ threads.chat.pc = "final"
    /\ threads' = [threads EXCEPT
          !.chat.pc = IF threads.chat.id # NULL /\ confirmation_mode = "CHAT"
                         /\ get_completeness(scratchpad) # 0
                      THEN "dump" ELSE "done",
          !.chat.ret = threads.chat.id]
    /\ UNCHANGED <<scratchpad, state, user_data, metadata, sr_count, dumps>>
    /\ ConcFrame

\* process_message, lines 477-487
ChatDump ==
    /\ threads.chat.pc = "dump"
    /\ dumps' = Append(dumps, DumpFile(threads.chat.id, "chat"))
    /\ threads' = [threads EXCEPT !.chat.pc = "clear"]
    /\ UNCHANGED <<scratchpad, state, user_data, metadata, sr_count>>
    /\ ConcFrame

\* process_message, line 490
ChatClear ==
    /\ threads.chat.pc = "clear"
    /\ scratchpad' = clear_all(scratchpad)
    /\ threads' = [threads EXCEPT !.chat.pc = "done"]
    /\ UNCHANGED <<state, user_data, metadata, sr_count, dumps>>
    /\ ConcFrame

\* process_for_booking, lines 45-46 and 69
BtnReadState ==
    /\ threads.btn.pc = "read_state"
    /\ threads' = [threads EXCEPT !.btn.cs = state,
                                  !.btn.pc = IF state = CONFIRMATION
                                             THEN "build" ELSE "layers"]
    /\ UNCHANGED <<scratchpad, state, user_data, metadata, sr_count, dumps>>
    /\ ConcFrame

\* process_for_booking, lines 94-98
BtnBuild ==
    /\ threads.btn.pc = "build"
    /\ sr_count' = sr_count + 1
    /\ threads' = [threads EXCEPT !.btn.id = SRId(sr_count + 1),
                                  !.btn.pc = "update_state"]
    /\ UNCHANGED <<scratchpad, state, user_data, metadata, dumps>>
    /\ ConcFrame

\* process_for_booking, lines 106-110
BtnUpdateState ==
    /\ threads.btn.pc = "update_state"
    /\ state' = update_state(state, COMPLETED).state
    /\ threads' = [threads EXCEPT !.btn.pc = "record"]
    /\ UNCHANGED <<scratchpad, user_data, metadata, sr_count, dumps>>
    /\ ConcFrame

\* A confirm branch that returns the ServiceRequest without storing its id.
BtnSkipRecord ==
    /\ threads.btn.pc = "record"
    /\ threads' = [threads EXCEPT !.btn.pc = "layers"]
    /\ UNCHANGED <<scratchpad, state, user_data, metadata, sr_count, dumps>>
    /\ ConcFrame

\* process_for_booking, lines 113-115
BtnRecord ==
    /\ threads.btn.pc = "record"
    /\ metadata' = [metadata EXCEPT !.service_request_id = threads.btn.id]
    /\ threads' = [threads EXCEPT !.btn.pc = "layers"]
    /\ UNCHANGED <<scratchpad, state, user_data, sr_count, dumps>>
    /\ ConcFrame

\* handle_confirmation, lines 308-333: the id of the ServiceRequest just built,
\* else the id in the metadata, else a ServiceRequest rebuilt in COMPLETED.
BtnLayers ==
    /\ threads.btn.pc = "layers"
    /\ LET id2 == IF threads.btn.id # NULL THEN threads.btn.id
                  ELSE metadata.service_request_id
           rebuild == id2 = NULL /\ state = COMPLETED
       IN  /\ sr_count' = IF rebuild THEN sr_count + 1 ELSE sr_count
           /\ metadata' = IF rebuild
                          THEN [metadata EXCEPT !.service_request_id = SRId(sr_count + 1)]
                          ELSE metadata
           /\ threads' = [threads EXCEPT
                 !.btn.id = IF rebuild THEN SRId(sr_count + 1) ELSE id2,
                 !.btn.pc = "final"]
    /\ UNCHANGED <<scratchpad, state, user_data, dumps>>
    /\ ConcFrame

\* handle_confirmation, lines 340-348
BtnFinal ==
    /\ threads.btn.pc = "final"
    /\ threads' = [threads EXCEPT
          !.btn.pc = IF threads.btn.id # NULL /\ get_completeness(scratchpad) # 0
                     THEN "dump" ELSE "done",
          !.btn.ret = threads.btn.id]
    /\ UNCHANGED <<scratchpad, state, user_data, metadata, sr_count, dumps>>
    /\ ConcFrame

\* handle_confirmation, lines 350-361
BtnDump ==
    /\ threads.btn.pc = "dump"
    /\ dumps' = Append(dumps, DumpFile(threads.btn.id, "button"))
    /\ threads' = [threads EXCEPT !.btn.pc = "clear"]
    /\ UNCHANGED <<scratchpad, state, user_data, metadata, sr_count>>
    /\ ConcFrame

\* handle_confirmation, line 364
BtnClear ==
    /\ threads.btn.pc = "clear"
    /\ scratchpad' = clear_all(scratchpad)
    /\ threads' = [threads EXCEPT !.btn.pc = "done"]
    /\ UNCHANGED <<state, user_data, metadata, sr_count, dumps>>
    /\ ConcFrame

NextConc ==
    \/ ChatReadState /\ UNCHANGED envVars
    \/ ChatPopulate /\ UNCHANGED envVars
    \/ ChatCheck /\ UNCHANGED envVars
    \/ ChatBuild /\ UNCHANGED envVars
    \/ ChatRecord /\ UNCHANGED envVars
    \/ ChatNextState /\ UNCHANGED envVars
    \/ ChatFinal /\ UNCHANGED envVars
    \/ ChatDump /\ UNCHANGED envVars
    \/ ChatClear /\ UNCHANGED envVars
    \/ BtnReadState /\ UNCHANGED envVars
    \/ BtnBuild /\ UNCHANGED envVars
    \/ BtnUpdateState /\ UNCHANGED envVars
    \/ BtnRecord /\ UNCHANGED envVars
    \/ BtnLayers /\ UNCHANGED envVars
    \/ BtnFinal /\ UNCHANGED envVars
    \/ BtnDump /\ UNCHANGED envVars
    \/ BtnClear /\ UNCHANGED envVars

SpecConc == InitConc /\ [][NextConc]_vars

(***************************************************************************)
(* Claims about the conversation flow (specification Spec)                 *)
(***************************************************************************)
\* The operation just performed was a finalization attempt: a chat turn that
\* entered the inline CHAT-mode trigger, or a /api/confirmation call with
\* action "confirm".
Finalized(l) == l.op \in {"process_message", "handle_confirmation"} /\ l.fin

\* Every field the scratchpad before held is held, unchanged, by the one after.
KeepsFields(before, after) ==
    \A sec \in Sections :
        \A f \in DOMAIN before[sec] :
            f \in DOMAIN after[sec] /\ after[sec][f] = before[sec][f]

\* C1: when a finalization that returned a service_request_id is followed by
\* another finalization of the same conversation, through either entry point,
\* the second returns the same id, creates no new ServiceRequest and adds no
\* snapshot file.
C1_SecondFinalizationSameId ==
    [][(/\ Finalized(last) /\ last.failed = "none" /\ last.ret # NULL
        /\ Finalized(last') /\ last'.failed = "none")
       => (/\ last'.ret = last.ret
           /\ sr_count' = sr_count
           /\ datadump' = datadump)]_vars

\* C2: in every reachable state at most one ServiceRequest has been created
\* for the conversation.
C2_AtMostOneServiceRequest == sr_count <= 1

\* C6: when a chat turn supplies, for a field the scratchpad already holds
\* from an earlier turn, a valid value different from the stored one, the
\* scratchpad holds the turn's value afterwards (unless the turn finalized the
\* booking and cleared the scratchpad).
C6_LaterTurnValueStored ==
    [][last'.op = "process_message" =>
        \A k \in DOMAIN user_data' :
            (/\ CollectSection(k) # NULL
             /\ HasField(scratchpad, CollectSection(k), CollectField(k))
             /\ (k \notin DOMAIN user_data \/ user_data[k] # user_data'[k])
             /\ user_data'[k] # NULL /\ ~IsPlaceholder(user_data'[k])
             /\ user_data'[k] # scratchpad[CollectSection(k)][CollectField(k)].value
             /\ HasField(scratchpad', CollectSection(k), CollectField(k)))
            => scratchpad'[CollectSection(k)][CollectField(k)].value = user_data'[k]]_vars

\* C7: an operation whose transition request is not in the edge table leaves
\* the conversation state and the scratchpad as they were.
C7_RejectedTransitionChangesNothing ==
    [][(last'.op \in {"process_message", "handle_confirmation", "reset"}
        /\ last'.rejected # NULL)
       => (state' = state /\ scratchpad' = scratchpad)]_vars

C9_FailedFinalizationKeepsAll ==
    [][(state = CONFIRMATION /\ Finalized(last') /\ last'.failed # "none")
       => (/\ KeepsFields(scratchpad, scratchpad')
           /\ state' = CONFIRMATION
           /\ metadata'.service_request_id = metadata.service_request_id)]_vars

\* C10: when metadata["service_request_id"] is already set, a finalization
\* attempt through either entry point returns that id, creates no new
\* ServiceRequest and loses nothing of the scratchpad.
C10_FinalizationWithIdIsNoOp ==
    [][(metadata.service_request_id # NULL /\ Finalized(last')
        /\ last'.failed = "none")
       => (/\ last'.ret = metadata.service_request_id
           /\ sr_count' = sr_count
           /\ KeepsFields(scratchpad, scratchpad'))]_vars

(***************************************************************************)
(* Claim about the two entry points served at the same time (SpecConc)     *)
(***************************************************************************)
BothDone == threads.chat.pc = "done" /\ threads.btn.pc = "done"

\* C3: when the chat turn entered the inline trigger and the /api/confirmation
\* call ran at the same time, then once both have returned they have returned
\* the same service_request_id, and exactly one ServiceRequest has been created
\* and exactly one snapshot file exists, whatever the interleaving of their steps.
C3_RaceYieldsOneServiceRequest ==
    (BothDone /\ threads.chat.cs = CONFIRMATION)
        => (/\ threads.chat.ret = threads.btn.ret
            /\ sr_count = 1
            /\ Cardinality(datadump) = 1)

(***************************************************************************)
(* Claims about the transition policy and the confirmation flow (Spec)     *)
(***************************************************************************)
\* C11: whenever the conversation enters CONFIRMATION, every field that
\* CONFIRMATION requires is present in the collected data.
C11_ConfirmationOnlyWhenComplete ==
    [][(state # CONFIRMATION /\ state' = CONFIRMATION)
       => Range(REQUIREMENTS(CONFIRMATION)) \subseteq DOMAIN user_data']_vars

\* C12: a chat turn that starts in CONFIRMATION with all required fields
\* present and carries no confirm, edit or cancel signal raises
\* confirmation_attempts by one and creates nothing while the raised counter is
\* below 3; on the turn where the counter reaches 3 the finalizer is invoked
\* and a ServiceRequest is created.
C12_AutoConfirmOnThirdAttempt ==
    [][(/\ last'.op = "process_message" /\ last'.failed = "none"
        /\ state = CONFIRMATION
        /\ Range(REQUIREMENTS(CONFIRMATION)) \subseteq DOMAIN user_data'
        /\ last'.sig = NoSignal)
       => IF metadata.confirmation_attempts + 1 >= 3
          THEN last'.fin /\ last'.ret # NULL /\ sr_count' = sr_count + 1
          ELSE /\ metadata'.confirmation_attempts = metadata.confirmation_attempts + 1
               /\ ~last'.fin /\ last'.ret = NULL /\ sr_count' = sr_count]_vars

\* C12 witness: the third ambiguous reply in CONFIRMATION has just created the
\* conversation's ServiceRequest.
C12_Witness ==
    /\ last.op = "process_message" /\ last.failed = "none"
    /\ last.sig = NoSignal /\ last.fin /\ last.ret = SRId(1)
    /\ sr_count = 1 /\ metadata.service_request_id = SRId(1)

\* C13: a chat turn that starts in CONFIRMATION and carries an edit or a
\* cancel signal creates no ServiceRequest, whatever else the message carries
\* and whatever the counter was, and leaves confirmation_attempts at 0.
C13_EditOrCancelNeverFinalizes ==
    [][(/\ last'.op = "process_message" /\ last'.failed = "none"
        /\ state = CONFIRMATION
        /\ (last'.sig.edit \/ last'.sig.cancel))
       => (/\ sr_count' = sr_count
           /\ last'.ret = NULL
           /\ metadata'.confirmation_attempts = 0)]_vars

(***************************************************************************)
(* Further claims about the scratchpad store (specification SpecPad)       *)
(***************************************************************************)
\* C14: the completeness percentage is always within [0, 100], for the
\* scratchpad and for every number of filled entries up to MaxFilled, and an
\* add_field call with a valid value never lowers it.
C14_CompletenessBoundedMonotone ==
    /\ [](/\ get_completeness(scratchpad) \in 0..1000
          /\ get_completeness(scratchpad) = CompletenessOf(scratchpad)
          /\ \A n \in 0..MaxFilled :
                /\ CompletenessPct(n) \in 0..1000
                /\ n > 0 => CompletenessPct(n) >= CompletenessPct(n - 1))
    /\ [][(last'.op = "add_field" /\ last'.value \in ValidValues)
          => get_completeness(scratchpad') >= get_completeness(scratchpad)]_vars

\* C14 witness: a second valid field has just been accepted and the
\* completeness stands at 12.5 percent.
C14_Witness ==
    /\ last.op = "add_field" /\ last.ok /\ last.value \in ValidValues
    /\ get_completeness(scratchpad) = 125

\* C15: an add_field call on a section the form does not have, or with a value
\* that is null, empty, or "unknown" or "none" in any case, returns False and
\* leaves every section, every entry and the completeness values unchanged.
C15_InvalidWriteRejected ==
    [][(/\ last'.op = "add_field"
        /\ \/ last'.section \notin {"customer", "vehicle", "appointment"}
           \/ last'.value \in {NULL, "", "unknown", "Unknown", "UNKNOWN",
                               "none", "None", "NONE"})
       => (~last'.ok /\ scratchpad' = scratchpad)]_vars

\* C15 witness: a write of "UNKNOWN" to a field that holds a value has just
\* been refused.
C15_Witness ==
    /\ last.op = "add_field" /\ ~last.ok /\ last.value = "UNKNOWN"
    /\ HasField(scratchpad, last.section, last.field)
    /\ scratchpad[last.section][last.field].value \in ValidValues
    /\ scratchpad[last.section][last.field].turn < last.turn

(***************************************************************************)
(* Claims about the confirmation actions and the terminal states (Spec)    *)
(***************************************************************************)
\* Every field other than the one named is held as before, and no other
\* field has appeared.
OnlyFieldChanged(before, after, named) ==
    \A sec \in Sections :
        /\ DOMAIN after[sec] \ DOMAIN before[sec] \subseteq
               {f \in DOMAIN after[sec] : <<sec, f>> = named}
        /\ \A f \in DOMAIN before[sec] :
               <<sec, f>> # named =>
                   f \in DOMAIN after[sec] /\ after[sec][f] = before[sec][f]

\* C16: a /api/confirmation call with action "edit" received in CONFIRMATION
\* leaves the state CONFIRMATION, creates no ServiceRequest, and changes no
\* scratchpad field other than the one the edit instruction names.
C16_EditChangesOneField ==
    [][(/\ last'.op = "handle_confirmation" /\ last'.failed = "none"
        /\ last'.action = "edit" /\ state = CONFIRMATION)
       => (/\ state' = CONFIRMATION
           /\ sr_count' = sr_count
           /\ OnlyFieldChanged(scratchpad, scratchpad',
                               IF last'.edit = NoEdit THEN <<>>
                               ELSE <<last'.edit[1], last'.edit[2]>>))]_vars

\* C17: a /api/confirmation call with action "cancel" received in CONFIRMATION
\* moves the conversation to CANCELLED, creates no ServiceRequest and leaves
\* the three scratchpad sections as they were.
C17_CancelKeepsScratchpad ==
    [][(/\ last'.op = "handle_confirmation" /\ last'.failed = "none"
        /\ last'.action = "cancel" /\ state = CONFIRMATION)
       => (/\ state' = CANCELLED
           /\ sr_count' = sr_count
           /\ \A sec \in Sections : scratchpad'[sec] = scratchpad[sec])]_vars


C19_AfterFinalization ==
    [][(/\ last'.op \in {"process_message", "handle_confirmation"}
        /\ sr_count' = sr_count + 1 /\ last'.failed = "none")
       => (/\ \A sec \in Sections : scratchpad'[sec] = EmptyDict
           /\ state' = COMPLETED
           /\ metadata'.confirmation_attempts = 0)]_vars

\* C20: once an operation of either entry point has finalized a booking
\* without error, no later chat turn runs the retroactive-completion pass
\* until a turn starts in GREETING, and from that turn on the pass runs again:
\* the pass is disabled by the finalizing step, stays disabled over every step
\* that does not lead to GREETING, and is enabled by a chat turn that starts
\* in GREETING.
C20_RetroactiveDisabledUntilGreeting ==
    [][/\ (/\ last'.op \in {"process_message", "handle_confirmation"}
            /\ sr_count' = sr_count + 1 /\ last'.failed = "none")
           => ~RunsRetroactivePass'
       /\ (~RunsRetroactivePass /\ state' # GREETING) => ~RunsRetroactivePass'
       /\ (last'.op = "process_message" /\ last'.failed = "none" /\ state = GREETING)
           => metadata'.retroactive_enabled]_vars


\* C21: on a chat turn in which an extractor, the intent classifier, the
\* confirmation-intent detector or the retroactive sweep raised, the turn is
\* completed without an error for the caller, and no value is stored on that
\* turn for a field the failed extractor was to resolve.
C21_ComponentFailureNonFatal ==
    [][(last'.op = "process_message" /\ last'.fault.kind # "none")
       => (/\ last'.failed # "build"
           /\ \A k \in last'.fault.fields :
                 IF k \in DOMAIN user_data
                 THEN k \in DOMAIN user_data' /\ user_data'[k] = user_data[k]
                 ELSE k \notin DOMAIN user_data')]_vars


InFlight(t) == t.pc \notin {"read_state", "done"}

\* C23: the reads and writes of two requests for one conversation id (a
\* streamed chat turn in its worker thread, a /api/confirmation action) never
\* interleave: while one of them is between its first read and its return,
\* the other performs no step.
C23_RequestsAtomic ==
    [][~(InFlight(threads.chat) /\ threads'.btn # threads.btn)
       /\ ~(InFlight(threads.btn) /\ threads'.chat # threads.chat)]_vars


\* C24: over any sequence of chat turns and /api/confirmation actions of a
\* conversation, dump_service_request is executed at most once, so by one
\* entry point only, and no snapshot file of a service_request_id is written
\* a second time.
C24_SnapshotWrittenOnce ==
    /\ Len(dumps) <= 1
    /\ \A i, j \in 1 .. Len(dumps) :
          i # j => dumps[i].service_request_id # dumps[j].service_request_id


\* C25: in a deployment with CONFIRMATION_MODE "BUTTON", a chat turn
\* (process_message) creates no ServiceRequest, records no service_request_id,
\* dumps no snapshot and removes nothing from the scratchpad, also when the
\* user confirms or the auto-confirm threshold is reached.
C25_ButtonModeChatNeverFinalizes ==
    [][(confirmation_mode = "BUTTON" /\ last'.op = "process_message")
       => (/\ sr_count' = sr_count
           /\ metadata'.service_request_id = metadata.service_request_id
           /\ dumps' = dumps
           /\ KeepsFields(scratchpad, scratchpad'))]_vars

\* In BUTTON mode a chat turn in CONFIRMATION with every required field has
\* taken the trigger branch on the auto-confirm threshold, and no
\* ServiceRequest exists.
C25_Witness ==
    /\ confirmation_mode = "BUTTON"
    /\ last.op = "process_message" /\ last.failed = "none" /\ last.sig = NoSignal
    /\ metadata.confirmation_attempts = CONFIRMATION_AUTO_CONFIRM_ATTEMPTS
    /\ Range(REQUIREMENTS(CONFIRMATION)) \subseteq DOMAIN user_data
    /\ sr_count = 0 /\ dumps = <<>> /\ metadata.service_request_id = NULL
    /\ get_completeness(scratchpad) # 0


\* C26: in every execution of either finalization path, whatever the order in
\* which the steps of a chat turn and of a confirmation action are taken, the
\* scratchpad is cleared only after the service_request_id has been stored in
\* the conversation metadata: in no state is the scratchpad emptied while the
\* metadata holds no service_request_id.
C26_ClearedOnlyAfterIdStored ==
    (\A sec \in Sections : scratchpad[sec] = EmptyDict)
        => metadata.service_request_id # NULL

\* The confirmation action has dumped its snapshot and has just cleared the
\* scratchpad.
C26_Witness ==
    /\ threads.btn.pc = "done"
    /\ \A sec \in Sections : scratchpad[sec] = EmptyDict
    /\ Len(dumps) = 1 /\ dumps[1].confirmation_method = "button"
    /\ metadata.service_request_id = dumps[1].service_request_id


\* C27: after every call of add_field, update_field or delete_field that
\* changed the scratchpad, and after every clear_all, each of the values
\* data_completeness, is_bookable and filled_required_fields that the metadata
\* stores is the value recomputed from the fields the scratchpad then holds.
C27_MetadataRecomputed ==
    [][(\/ last'.op \in {"add_field", "update_field", "delete_field"} /\ last'.ok
        \/ last'.op = "clear_all")
       => \A k \in DOMAIN scratchpad'.metadata :
             scratchpad'.metadata[k] = update_completeness(scratchpad').metadata[k]]_vars


\* dump_service_request: the sections of the snapshot, each entry of the
\* scratchpad section whose value is not None, by its value.
SnapshotSection(section_dict) ==
    [k \in {x \in DOMAIN section_dict : section_dict[x].value # NULL} |->
        section_dict[k].value]

service_data(pad) ==
    [customer |-> SnapshotSection(pad.customer),
     vehicle |-> SnapshotSection(pad.vehicle),
     appointment |-> SnapshotSection(pad.appointment),
     completeness |-> get_completeness(pad)]

\* dump_service_request on the scratchpad as it stands; the record of the call
\* holds what was written to the file.
PadDump ==
    /\ last' = [op |-> "dump_service_request", service_data |-> service_data(scratchpad)]
    /\ UNCHANGED <<scratchpad, hiwrite, convVars, threads>>

\* add_optional_fields: the optional fields and the section and field of the
\* scratchpad each one is stored under.
optional_field_mapping ==
    [service_type |-> <<"appointment", "service_type">>,
     service_tier |-> <<"appointment", "service_tier">>,
     time_slot |-> <<"appointment", "time_slot">>,
     notes |-> <<"appointment", "notes">>,
     vehicle_type |-> <<"vehicle", "vehicle_type">>,
     address |-> <<"customer", "address">>]

\* f"{field_name}_method", the key that carries a candidate's marker.
MethodKey ==
    [service_type |-> "service_type_method", service_tier |-> "service_tier_method",
     time_slot |-> "time_slot_method", notes |-> "notes_method",
     vehicle_type |-> "vehicle_type_method", address |-> "address_method"]

\* optional_data.get(f"{field_name}_method", "explicit")
CandidateMethod(optional_data, field_name) ==
    IF MethodKey[field_name] \in DOMAIN optional_data
    THEN optional_data[MethodKey[field_name]] ELSE "explicit"

\* The overwrite protection of add_optional_fields: the candidate is skipped
\* when the field holds a truthy value whose extraction method is "explicit"
\* (or absent) and the candidate is marked "inferred".
Protected(pad, section, field_name, extraction_method) ==
    /\ HasField(pad, section, field_name)
    /\ Truthy(pad[section][field_name].value)
    /\ LET m == pad[section][field_name].extraction_method
           existing_method == IF Truthy(m) THEN m ELSE "explicit"
       IN  existing_method = "explicit" /\ extraction_method = "inferred"

\* One pass of the loop of add_optional_fields: a marker key and a key that is
\* no optional field are skipped, a protected field is skipped, and every other
\* candidate goes to add_field at turn 0 with its extraction method.
add_optional_field(pad, optional_data, field_name) ==
    IF field_name \notin DOMAIN optional_field_mapping THEN pad
    ELSE LET key == optional_field_mapping[field_name]
             extraction_method == CandidateMethod(optional_data, field_name)
         IN  IF Protected(pad, key[1], key[2], extraction_method) THEN pad
             ELSE add_field(pad, key[1], key[2], optional_data[field_name],
                            "extraction", 0, extraction_method, "initial_entry").pad

RECURSIVE AddOptionalOver(_, _, _)
AddOptionalOver(pad, optional_data, keys) ==
    IF keys = {} THEN pad
    ELSE LET field_name == CHOOSE k \in keys : TRUE
         IN  AddOptionalOver(add_optional_field(pad, optional_data, field_name),
                             optional_data, keys \ {field_name})

\* add_optional_fields(scratchpad, optional_data): the loop over the items of
\* optional_data; the candidates are for different fields, so the order of the
\* items makes no difference to the result.
add_optional_fields(pad, optional_data) ==
    AddOptionalOver(pad, optional_data, DOMAIN optional_data)

\* The optional_data passed in: a candidate marked explicit, a candidate marked
\* inferred, and a candidate marked inferred beside a key that is no optional
\* field.
OptionalCandidates ==
    {[service_type |-> "wash", service_type_method |-> "explicit"],
     [service_type |-> "polish", service_type_method |-> "inferred"],
     [time_slot |-> "evening", time_slot_method |-> "inferred", colour |-> "red"]}

RECURSIVE HiWriteAfterOptional(_, _, _, _)
HiWriteAfterOptional(h, pad, optional_data, keys) ==
    IF keys = {} THEN h
    ELSE LET field_name == CHOOSE k \in keys : TRUE
             rest == keys \ {field_name}
             reaches ==
                 /\ field_name \in DOMAIN optional_field_mapping
                 /\ ~Protected(pad, optional_field_mapping[field_name][1],
                               optional_field_mapping[field_name][2],
                               CandidateMethod(optional_data, field_name))
         IN  HiWriteAfterOptional(
                 IF reaches
                 THEN HiWriteAfterAdd(h, optional_field_mapping[field_name],
                                      optional_data[field_name], 0)
                 ELSE h,
                 pad, optional_data, rest)

PadAddOptionalFields(optional_data) ==
    /\ scratchpad' = add_optional_fields(scratchpad, optional_data)
    /\ hiwrite' = HiWriteAfterOptional(hiwrite, scratchpad, optional_data,
                                       DOMAIN optional_data)
    /\ last' = [op |-> "add_optional_fields", optional_data |-> optional_data]
    /\ UNCHANGED <<convVars, threads>>

\* The add_field calls that fill the required subset, one per required field.
BookingCalls ==
    {<<<<"customer", "first_name">>, "Raj">>, <<<<"customer", "last_name">>, "Kumar">>,
     <<<<"customer", "phone">>, "9876543210">>, <<<<"vehicle", "brand">>, "Honda">>,
     <<<<"vehicle", "model">>, "City">>, <<<<"vehicle", "plate">>, "MH12">>,
     <<<<"appointment", "date">>, "2025-01-15">>}

\* The scratchpad under the calls that fill the required subset, an
\* add_field that offers a greeting word as the first name, an update_field
\* that overwrites the phone or the plate with a placeholder, clear_all, a
\* dump of the scratchpad, and add_optional_fields on each optional_data.
NextBooking ==
    \/ \E c \in BookingCalls : PadAddField(c[1], c[2], 0) /\ UNCHANGED envVars
    \/ PadAddField(<<"customer", "first_name">>, "Haan", 1) /\ UNCHANGED envVars
    \/ \E key \in {<<"customer", "phone">>, <<"vehicle", "plate">>} :
          PadUpdateField(key, "Unknown") /\ UNCHANGED envVars
    \/ PadClearAll /\ UNCHANGED envVars
    \/ PadDump /\ UNCHANGED envVars
    \/ \E d \in OptionalCandidates : PadAddOptionalFields(d) /\ UNCHANGED envVars

SpecBooking == InitPad /\ [][NextBooking]_vars

\* The seven entries of the required subset, each in its own section, hold
\* values that are not placeholders.
RequiredSubsetFilled(pad) ==
    /\ \A k \in {"first_name", "last_name", "phone"} :
          k \in DOMAIN pad.customer /\ Filled(pad.customer[k])
    /\ \A k \in {"brand", "model", "plate"} :
          k \in DOMAIN pad.vehicle /\ Filled(pad.vehicle[k])
    /\ "date" \in DOMAIN pad.appointment /\ Filled(pad.appointment["date"])

\* C28: whenever the customer's first_name, last_name and phone, the vehicle's
\* brand, model and plate and the appointment's date all hold non-placeholder
\* values in the scratchpad, the stored is_bookable is true.
C28_RequiredSubsetIsBookable ==
    RequiredSubsetFilled(scratchpad)
        => /\ "is_bookable" \in DOMAIN scratchpad.metadata
           /\ scratchpad.metadata.is_bookable


\* The known_fields handed to get_missing_fields: the first name and the
\* brand each absent, null, a placeholder in some spelling or a value, merged
\* with one of a few settings of the last name, the model, the plate and the
\* date.
MissingValues == {NULL, "UNKNOWN", "Unknown", "None", "none", "", "Raj"}
KnownFieldsOver(keys) == [keys -> MissingValues]
KnownCore ==
    UNION {KnownFieldsOver(keys) : keys \in SUBSET {"first_name", "vehicle_brand"}}
KnownRest ==
    {EmptyDict, [last_name |-> ""], [vehicle_model |-> "City", vehicle_plate |-> "MH12"],
     [vehicle_model |-> "Unknown", vehicle_plate |-> "MH12", appointment_date |-> "none"],
     [vehicle_model |-> "City", vehicle_plate |-> "MH12",
      appointment_date |-> "2025-01-15"]}
KnownFields == {DictMerge(a, b) : a \in KnownCore, b \in KnownRest}

\* A caller holds a state name and a dictionary of known fields.
InitMissing ==
    /\ InitPadVars
    /\ state \in ConversationState
    /\ user_data \in KnownFields
    /\ metadata = NewContext.metadata
    /\ sr_count = 0
    /\ dumps = <<>>
    /\ threads = NoThreads
    /\ InitStore
    /\ history = <<>>
    /\ InitMode
    /\ last = NoOp

\* One call of DataRequirements.get_missing_fields(state, user_data).
CallGetMissingFields ==
    /\ last' = [op |-> "get_missing_fields", current_state |-> state,
                extracted_data |-> user_data,
                missing |-> get_missing_fields(state, user_data)]
    /\ UNCHANGED <<scratchpad, hiwrite, convVars, threads, envVars>>

NextMissing == CallGetMissingFields

SpecMissing == InitMissing /\ [][NextMissing]_vars

\* What the vehicle extractor returns for the combined recent user messages:
\* brand, model and number_plate, each nothing, a placeholder or a value.
RawVehicle(brand, model, number_plate) ==
    [brand |-> brand, model |-> model, number_plate |-> number_plate]
RawVehicles ==
    {RawVehicle(b, m, p) : b \in {NULL, "Unknown", "Honda"}, m \in {NULL, "City"},
                           p \in {NULL, "MH12"}}

\* The acceptance test of scan_for_vehicle_details: a real brand, or else a
\* real plate.
VehicleScanAccepts(brand, model, plate) ==
    \/ brand # NULL /\ Lower(brand) \notin {"unknown", "none"}
    \/ plate # NULL /\ Lower(plate) \notin {"unknown", "none"}

\* scan_for_vehicle_details on the extractor's result: the candidate, with
\* "Unknown" for what the extractor left out, or nothing.
scan_for_vehicle_details(result) ==
    LET brand == IF Truthy(result.brand) THEN result.brand ELSE NULL
        model == IF Truthy(result.model) THEN result.model ELSE NULL
        plate == IF Truthy(result.number_plate) THEN result.number_plate ELSE NULL
    IN  IF VehicleScanAccepts(brand, model, plate)
        THEN VehicleOf(IF brand # NULL THEN brand ELSE "Unknown",
                       IF model # NULL THEN model ELSE "Unknown",
                       IF plate # NULL THEN plate ELSE "Unknown")
        ELSE EmptyDict

\* The scan results of one sweep: nothing at all, or a name, a date and an
\* optional field together with the outcome of the vehicle scan.
SweepFinds ==
    {NoFind} \cup
    {[name |-> NameOf("Raj", "Kumar"), vehicle |-> scan_for_vehicle_details(raw),
      date |-> DateOf("2025-01-15"), optional |-> [service_type |-> "wash"],
      raw_vehicle |-> raw] : raw \in RawVehicles}

\* One call of ConversationValidator.validate_and_complete on the state name
\* and the known fields the caller holds.
CallValidateAndComplete(found) ==
    /\ last' = [op |-> "validate_and_complete", current_state |-> state,
                extracted_data |-> user_data, found |-> found,
                scans |-> ScansInvoked(state, user_data),
                updated_data |-> validate_and_complete(state, user_data, found)]
    /\ UNCHANGED <<scratchpad, hiwrite, convVars, threads, envVars>>

NextSweep == \E found \in SweepFinds : CallValidateAndComplete(found)

SpecSweep == InitMissing /\ [][NextSweep]_vars

(***************************************************************************)
(* RetroactiveScanner: the scans over the transcript.  A transcript entry   *)
(* has a role and a text; the extractors are external language-model calls, *)
(* modelled by what they read off each text.                               *)
(***************************************************************************)
RETROACTIVE_SCAN_LIMIT == 4

Message(role, content) == [role |-> role, content |-> content]

RawName(first_name, last_name) == [first_name |-> first_name, last_name |-> last_name]

\* NameExtractor on one message.
name_extractor(user_message) ==
    CASE user_message = "I am Raj Kumar" -> RawName("Raj", "Kumar")
      [] user_message = "Amit here" -> RawName("Amit", "")
      [] user_message = "Haan" -> RawName("Haan", "")
      [] user_message = "Honda City" -> RawName("Honda", "City")
      [] user_message = "Bahut acha" -> RawName("Bahut", "Acha")
      [] OTHER -> RawName("None", "")

\* What a message says about the vehicle.
vehicle_mentions(user_message) ==
    CASE user_message = "Honda City" -> RawVehicle("Honda", "City", NULL)
      [] user_message = "plate MH12" -> RawVehicle(NULL, NULL, "MH12")
      [] OTHER -> RawVehicle(NULL, NULL, NULL)

\* DateParser on one message.
date_parser(user_message) ==
    CASE user_message = "on 2025-01-15" -> "2025-01-15"
      [] user_message = "on 2025-02-01" -> "2025-02-01"
      [] OTHER -> NULL

\* VehicleDetailsExtractor on the recent messages joined into one text: for
\* each field one of the values the joined text mentions, nothing if it
\* mentions none.
MentionedValues(user_messages, field) ==
    LET vals == {vehicle_mentions(user_messages[i])[field] :
                     i \in 1..Len(user_messages)} \ {NULL}
    IN  IF vals = {} THEN {NULL} ELSE vals

vehicle_extractor(user_messages) ==
    {RawVehicle(b, m, p) : b \in MentionedValues(user_messages, "brand"),
                           m \in MentionedValues(user_messages, "model"),
                           p \in MentionedValues(user_messages, "number_plate")}

LastN(seq, n) == IF Len(seq) > n THEN SubSeq(seq, Len(seq) - n + 1, Len(seq)) ELSE seq

\* The user_messages list of the three scans: the texts of the last
\* RETROACTIVE_SCAN_LIMIT entries of the user-only history.
RecentUserMessages(dspy_history) ==
    LET recent_messages ==
            LastN(filter_dspy_history_to_user_only(dspy_history), RETROACTIVE_SCAN_LIMIT)
        users == SelectSeq(recent_messages, LAMBDA msg : msg.role = "user")
    IN  [i \in 1..Len(users) |-> users[i].content]

\* The validity filters of a name candidate (the same in scan_for_name and in
\* extract_for_state).
NameCandidateValid(first_name, last_name) ==
    /\ ~(is_vehicle_brand(first_name) \/ is_vehicle_brand(last_name))
    /\ ~(Truthy(first_name) /\ Lower(first_name) \in GREETING_STOPWORDS)
    /\ Truthy(first_name) /\ Lower(first_name) \notin {"none", "n/a", "unknown"}

NameCandidate(user_message) ==
    LET result == name_extractor(user_message)
    IN  IF NameCandidateValid(result.first_name, result.last_name)
        THEN NameOf(result.first_name, result.last_name) ELSE EmptyDict

DateCandidate(user_message) ==
    LET date_str == date_parser(user_message)
    IN  IF Truthy(date_str) /\ Lower(date_str) \notin {"none", "unknown"}
        THEN DateOf(date_str) ELSE EmptyDict

RECURSIVE ScanNameFrom(_, _)
\* The loop of scan_for_name over reversed(user_messages), from entry i down.
ScanNameFrom(user_messages, i) ==
    IF i = 0 THEN EmptyDict
    ELSE IF NameCandidate(user_messages[i]) # EmptyDict
         THEN NameCandidate(user_messages[i])
         ELSE ScanNameFrom(user_messages, i - 1)

scan_for_name(dspy_history) ==
    ScanNameFrom(RecentUserMessages(dspy_history), Len(RecentUserMessages(dspy_history)))

RECURSIVE ScanDateFrom(_, _)
\* The loop of scan_for_date over reversed(user_messages), from entry i down.
ScanDateFrom(user_messages, i) ==
    IF i = 0 THEN EmptyDict
    ELSE IF DateCandidate(user_messages[i]) # EmptyDict
         THEN DateCandidate(user_messages[i])
         ELSE ScanDateFrom(user_messages, i - 1)

scan_for_date(dspy_history) ==
    ScanDateFrom(RecentUserMessages(dspy_history), Len(RecentUserMessages(dspy_history)))

\* The transcripts scanned: up to MaxHistory entries over a set of texts, the
\* last of the texts also said by the assistant.
Histories(texts, assistant_text) ==
    UNION {[1..n -> {Message("user", t) : t \in texts}
                       \cup {Message("assistant", assistant_text)}] :
           n \in 0..MaxHistory}

NameTexts == {"I am Raj Kumar", "Amit here", "Haan", "Honda City", "Bahut acha"}
VehicleTexts == {"Honda City", "plate MH12", "ok"}
DateTexts == {"on 2025-01-15", "on 2025-02-01", "ok"}

\* A scanner is handed a transcript.
InitScan ==
    /\ InitPadVars
    /\ state = NewContext.state
    /\ user_data = NewContext.user_data
    /\ metadata = NewContext.metadata
    /\ sr_count = 0
    /\ dumps = <<>>
    /\ threads = NoThreads
    /\ InitStore
    /\ InitMode
    /\ last = NoOp
    /\ history \in Histories(NameTexts, "Amit here")
                    \cup Histories(VehicleTexts, "plate MH12")
                    \cup Histories(DateTexts, "on 2025-02-01")

ScanFrame == UNCHANGED <<scratchpad, hiwrite, convVars, threads, envVars>>

ScanForName ==
    /\ last' = [op |-> "scan_for_name", result |-> scan_for_name(history)]
    /\ ScanFrame

ScanForVehicleDetails ==
    /\ \E result \in vehicle_extractor(RecentUserMessages(history)) :
          last' = [op |-> "scan_for_vehicle_details",
                   result |-> IF RecentUserMessages(history) = <<>> THEN EmptyDict
                              ELSE scan_for_vehicle_details(result)]
    /\ ScanFrame

ScanForDate ==
    /\ last' = [op |-> "scan_for_date", result |-> scan_for_date(history)]
    /\ ScanFrame

NextScan == ScanForName \/ ScanForVehicleDetails \/ ScanForDate

SpecScan == InitScan /\ [][NextScan]_vars

\* C29: on every turn of process_message the gating flags agree with the
\* requirement policy: has_all_required is true only if get_missing_fields of
\* the confirmation state over the merged data is empty, and
\* can_advance_from_current_state is true only if get_missing_fields of the
\* current state over the merged data is empty.
C29_FlagsAgreeWithPolicy ==
    [][last'.op = "process_message"
       => /\ last'.flags.has_all_required
                => get_missing_fields(CONFIRMATION, last'.flags.merged_data) = <<>>
          /\ last'.flags.can_advance_from_current_state
                => get_missing_fields(last'.flags.current_state,
                                      last'.flags.merged_data) = <<>>]_vars


\* The position of a required field in the table row of a state.
TablePosition(s, f) == CHOOSE i \in 1..Len(REQUIREMENTS(s)) : REQUIREMENTS(s)[i] = f

\* The states that have a row in the requirements table.
TableStates ==
    {"greeting", "name_collection", "service_selection", "vehicle_details",
     "date_selection", "confirmation", "completed"}

\* A field counts as missing: absent from the known fields, null, or
\* "unknown", "none" or empty in any spelling of the letters' case.
MissingByPolicy(known, f) ==
    \/ f \notin DOMAIN known
    \/ known[f] = NULL
    \/ known[f] \in {"unknown", "Unknown", "UNKNOWN", "none", "None", ""}

\* C30: get_missing_fields(state, known_fields) returns, in table order and
\* without repetition, exactly the required fields of the state that are
\* absent from known_fields, null, or case-insensitively "unknown", "none" or
\* empty; for a state without a table row it returns the empty list; and it
\* leaves known_fields as they were.
C30_GetMissingFields ==
    [][last'.op = "get_missing_fields"
       => LET missing == last'.missing
              required == Range(REQUIREMENTS(state))
          IN  /\ Range(missing) = {f \in required : MissingByPolicy(user_data, f)}
              /\ \A i, j \in 1..Len(missing) :
                    i < j => TablePosition(state, missing[i])
                                < TablePosition(state, missing[j])
              /\ state \notin TableStates => missing = <<>>
              /\ user_data' = user_data]_vars

\* get_missing_fields has returned two fields of a row, one of them held with
\* the value "UNKNOWN", and has left out a field of the row that holds a value.
C30_Witness ==
    /\ last.op = "get_missing_fields"
    /\ Len(last.missing) >= 2
    /\ \E f \in Range(last.missing) : f \in DOMAIN user_data /\ user_data[f] = "UNKNOWN"
    /\ \E f \in Range(REQUIREMENTS(state)) \ Range(last.missing) : user_data[f] = "Raj"


\* C31: when add_field accepts a write, the new entry's previous_value is the
\* value the field held immediately before the write if the field had an
\* entry, and null if it had none.
C31_PreviousValueKept ==
    [][(last'.op = "add_field" /\ last'.ok)
       => LET before == scratchpad[last'.section]
              after == scratchpad'[last'.section]
              f == last'.field
          IN  /\ f \in DOMAIN after
              /\ after[f].value = last'.value
              /\ after[f].previous_value =
                    IF f \in DOMAIN before THEN before[f].value ELSE NULL]_vars

\* An accepted add_field has superseded an entry and kept its value.
C31_Witness ==
    /\ last.op = "add_field" /\ last.ok
    /\ last.value = "Amit"
    /\ scratchpad[last.section][last.field].previous_value = "Raj"


\* C32: add_field("customer", "first_name", v, 1) with a greeting stopword v on
\* an empty scratchpad returns False, stores nothing and leaves the
\* completeness at 0.
C32_StopwordFirstNameRejected ==
    [][(/\ last'.op = "add_field"
        /\ last'.section = "customer" /\ last'.field = "first_name"
        /\ Lower(last'.value) \in GREETING_STOPWORDS
        /\ \A sec \in Sections : scratchpad[sec] = EmptyDict)
       => /\ ~last'.ok
          /\ \A sec \in Sections : scratchpad'[sec] = EmptyDict
          /\ get_completeness(scratchpad') = 0]_vars


\* C33: update_field on a field that has an entry succeeds whatever the
\* entry's turn, replaces the entry's value and leaves the rest of the entry
\* and every other entry as they were; on a field without an entry it returns
\* False and leaves the scratchpad as it was.
C33_UpdateFieldFrame ==
    [][last'.op = "update_field"
       => LET sec == last'.section
              f == last'.field
              had == sec \in Sections /\ f \in DOMAIN scratchpad[sec]
          IN  /\ last'.ok = had
              /\ had => /\ scratchpad'[sec] =
                              [scratchpad[sec] EXCEPT ![f].value = last'.value]
                        /\ \A other \in Sections \ {sec} :
                              scratchpad'[other] = scratchpad[other]
              /\ ~had => scratchpad' = scratchpad]_vars

\* update_field has replaced the value of an entry that add_field had written
\* at a turn above 0 over an earlier value; turn and previous_value are kept.
C33_Witness ==
    /\ last.op = "update_field" /\ last.ok
    /\ scratchpad[last.section][last.field].value = "Unknown"
    /\ scratchpad[last.section][last.field].turn >= 1
    /\ scratchpad[last.section][last.field].previous_value = "Raj"


\* C34: a persisted snapshot holds only fields whose value is not a
\* placeholder (not null, not empty, not "unknown" or "none" in any case),
\* whatever the scratchpad holds, values set through update_field included.
C34_SnapshotHoldsNoPlaceholder ==
    last.op = "dump_service_request"
        => \A sec \in Sections : \A k \in DOMAIN last.service_data[sec] :
              NotPlaceholder(last.service_data[sec][k])


\* C35: the result of validate_and_complete agrees with the data passed in on
\* every key that holds a non-placeholder value, the name scan is not invoked
\* when the data passed in holds a name key, and the date scan is not invoked
\* when it holds the appointment date.
C35_SweepKeepsKnownData ==
    [][last'.op = "validate_and_complete"
       => /\ \A k \in DOMAIN user_data :
                NotPlaceholder(user_data[k])
                    => /\ k \in DOMAIN last'.updated_data
                       /\ last'.updated_data[k] = user_data[k]
          /\ "name" \in last'.scans
                => {"first_name", "last_name", "full_name"} \cap DOMAIN user_data = {}
          /\ "date" \in last'.scans => "appointment_date" \notin DOMAIN user_data]_vars

\* A sweep has run for data that hold a first name and an empty last name in a
\* state that requires the last name, with a name candidate in the history:
\* the name scan was skipped and the first name was kept.
C35_Witness ==
    /\ last.op = "validate_and_complete"
    /\ state = NAME_COLLECTION
    /\ "first_name" \in DOMAIN user_data /\ user_data["first_name"] = "Raj"
    /\ "last_name" \in DOMAIN user_data /\ user_data["last_name"] = ""
    /\ last.found.name # EmptyDict
    /\ "name" \notin last.scans
    /\ last.updated_data["first_name"] = "Raj"


\* The candidate a scan gets from one transcript text taken alone.
EntryCandidate(op, text) ==
    CASE op = "scan_for_name" -> NameCandidate(text)
      [] op = "scan_for_date" -> DateCandidate(text)
      [] OTHER -> scan_for_vehicle_details(vehicle_mentions(text))

\* The texts of the last RETROACTIVE_SCAN_LIMIT user-authored entries.
ScanWindow(dspy_history) ==
    LET authored == SelectSeq(dspy_history, LAMBDA msg : msg.role = "user")
        recent == LastN(authored, RETROACTIVE_SCAN_LIMIT)
    IN  [i \in 1..Len(recent) |-> recent[i].content]

\* C36: each scan (name, vehicle, date) returns the candidate of the most
\* recent entry, among the last RETROACTIVE_SCAN_LIMIT user-authored entries of
\* the transcript, whose own extraction passes the validity filters, and
\* nothing when no such entry passes.
C36_ScanMostRecentFirst ==
    [][last'.op \in {"scan_for_name", "scan_for_vehicle_details", "scan_for_date"}
       => LET window == ScanWindow(history)
              passing == {i \in 1..Len(window) :
                             EntryCandidate(last'.op, window[i]) # EmptyDict}
          IN  last'.result =
                 IF passing = {} THEN EmptyDict
                 ELSE EntryCandidate(last'.op,
                          window[CHOOSE i \in passing : \A j \in passing : j <= i])]_vars


\* The value the vehicle extractor returned for a vehicle field of user_data.
RawVehicleValue(raw, field) ==
    CASE field = "vehicle_brand" -> raw.brand
      [] field = "vehicle_model" -> raw.model
      [] OTHER -> raw.number_plate

\* C37: whatever the vehicle extractor returned, the sweep fills each missing
\* vehicle field from it exactly when the returned value for that field is not
\* a placeholder (so a candidate with at least one real field is accepted),
\* and leaves the vehicle fields that were not missing as they were.
C37_VehicleMergedFieldByField ==
    [][(last'.op = "validate_and_complete" /\ last'.found # NoFind)
       => LET raw == last'.found.raw_vehicle
              missing == Range(get_missing_fields(state, user_data))
              updated_data == last'.updated_data
          IN  \A f \in {"vehicle_brand", "vehicle_model", "vehicle_plate"} :
                 IF f \in missing /\ NotPlaceholder(RawVehicleValue(raw, f))
                 THEN f \in DOMAIN updated_data
                      /\ updated_data[f] = RawVehicleValue(raw, f)
                 ELSE IF f \in DOMAIN user_data
                      THEN f \in DOMAIN updated_data /\ updated_data[f] = user_data[f]
                      ELSE f \notin DOMAIN updated_data]_vars


\* C38: a name the retroactive name scan returns holds no greeting or courtesy
\* stopword as first name, last name or full name, and no vehicle brand as
\* first or last name.
C38_NoStopwordOrBrandName ==
    [][(last'.op = "scan_for_name" /\ last'.result # EmptyDict)
       => /\ \A k \in {"first_name", "last_name", "full_name"} :
                Lower(last'.result[k]) \notin GREETING_STOPWORDS
          /\ \A k \in {"first_name", "last_name"} :
                ~is_vehicle_brand(last'.result[k])]_vars


\* An optional field has an entry in the scratchpad.
HasOptional(pad, field_name) ==
    HasField(pad, optional_field_mapping[field_name][1],
             optional_field_mapping[field_name][2])

OptionalEntry(pad, field_name) ==
    pad[optional_field_mapping[field_name][1]][optional_field_mapping[field_name][2]]

\* An optional field has the same entry, or no entry, in two scratchpads.
SameOptional(pad, other, field_name) ==
    /\ HasOptional(pad, field_name) = HasOptional(other, field_name)
    /\ HasOptional(pad, field_name)
          => OptionalEntry(pad, field_name) = OptionalEntry(other, field_name)

C40_RemovalDiscardsTurnHistory ==
    [][/\ (last'.op \in {"delete_field", "clear_all"}
              => \A k \in DOMAIN last'.removed : k \notin EntryKeys(scratchpad'))
       /\ (/\ last'.op = "add_field"
           /\ <<last'.section, last'.field>> \in DOMAIN Removed(last)
           /\ last'.value # NULL /\ ~IsPlaceholder(last'.value))
              => /\ last'.ok
                 /\ <<last'.section, last'.field>> \in EntryKeys(scratchpad')
                 /\ LET entry == scratchpad'[last'.section][last'.field]
                    IN  /\ entry.value = last'.value
                        /\ entry.turn = last'.turn
                        /\ entry.previous_value = NULL]_vars

\* An add_field at a turn below the turn of the removed entry has been
\* accepted, and the entry it wrote has a null previous_value.
C40_Witness ==
    /\ last.op = "add_field" /\ last.ok
    /\ last.removed_turn > last.turn
    /\ scratchpad[last.section][last.field].turn = last.turn
    /\ scratchpad[last.section][last.field].previous_value = NULL

====
